---------------------------- MODULE Spec2Model ----------------------------
(***************************************************************************)
(* State model of coinpeek's App (src/src/app.rs) and of the terminal      *)
(* mouse handler (src/src/main.rs).                                        *)
(*                                                                         *)
(* Conventions                                                             *)
(*   - f64 fields (price, price_change_percent, volume, thresholds) are    *)
(*     integers; f64::NAN is the value NaN, on which every comparison is   *)
(*     false and partial_cmp is None.                                      *)
(*   - a panic ends the thread that runs the App: run_loop becomes         *)
(*     "panicked" and no field is read again.                              *)
(*   - a String is a sequence of one-character strings; byte order and     *)
(*     ASCII lower-casing are the functions ByteOf and LowerOf.            *)
(*   - Option<T> is a sequence: << >> is None, <<x>> is Some(x).           *)
(*   - DateTime<Utc> is a number of minutes; Utc::now() is the variable    *)
(*     now, read once per operation.                                       *)
(***************************************************************************)
EXTENDS Integers, Sequences, FiniteSets, TLC

VARIABLES
    all_price_infos,    \* App.all_price_infos
    price_infos,        \* App.price_infos
    selected_index,     \* App.selected_index
    sort_config,        \* App.sort_config
    active_filters,     \* App.active_filters
    active_preset,      \* App.active_preset
    search_mode,        \* App.search_mode
    search_query,       \* App.search_query
    data_status,        \* App.data_status
    alerts,             \* App.alerts
    recent_alerts,      \* App.recent_alerts
    now,                \* the wall clock read by Utc::now(), in minutes
    last_call,          \* the most recent value-returning call on the App, with its result
    selected_candles,         \* App.selected_candles
    selected_symbol_candles,  \* App.selected_symbol_candles
    errors,             \* App.errors
    paused,             \* App.paused
    show_help,          \* App.show_help
    symbols,            \* App.config.symbols, the symbols run_loop requests
    db_candles,         \* the rows of the candles table of coinpeek.db
    events,             \* the terminal's input events not yet read
    run_loop            \* where main.rs's run_loop is: "load_cache",
                        \* "initial_fetch", "running", "blocked_in_read"
                        \* (inside event::read with no event pending), or
                        \* how it ended

view_vars  == <<all_price_infos, price_infos, selected_index, sort_config,
                active_filters, active_preset, search_mode, search_query>>
alert_vars == <<alerts, recent_alerts>>
vars       == <<all_price_infos, price_infos, selected_index, sort_config,
                active_filters, active_preset, search_mode, search_query,
                data_status, alerts, recent_alerts, now, last_call,
                selected_candles, selected_symbol_candles, errors, paused,
                show_help, symbols, db_candles, events, run_loop>>
aux_vars   == <<selected_candles, selected_symbol_candles, errors, paused,
                show_help, symbols, db_candles, events, run_loop>>

(***************************************************************************)
(* Bounds of the model                                                     *)
(***************************************************************************)
MaxRows     == 2    \* longest snapshot handed to update_prices
MaxQuery    == 1    \* longest search query typed
MaxAlerts   == 2    \* most alerts held at a time
MaxFailures == 5    \* cap of consecutive_failures
MaxTime     == 125  \* last minute of the clock
MaxTriggers == 3    \* cap of an alert's trigger_count

\* the error log holds at most MaxErrors entries in the model
MaxErrors == 3

\* retry_count (u32) is followed up to MaxRetries
MaxRetries == 1

\* the candles table holds at most MaxStored rows in the model
MaxStored == 1

\* the terminal holds at most MaxEvents unread input events in the model
MaxEvents == 2

(***************************************************************************)
(* Option, strings                                                         *)
(***************************************************************************)
None    == << >>
Some(x) == <<x>>

Alphabet == {"A", "B", "E", "T", "a", "b", "e", "t", "z"}

\* the ASCII code of a character: String::cmp compares bytes
ByteOf ==
    ("A" :> 65) @@ ("B" :> 66) @@ ("E" :> 69) @@ ("T" :> 84) @@
    ("a" :> 97) @@ ("b" :> 98) @@ ("e" :> 101) @@ ("t" :> 116) @@ ("z" :> 122)

\* char lower-casing of str::to_lowercase on ASCII
LowerOf ==
    ("A" :> "a") @@ ("B" :> "b") @@ ("E" :> "e") @@ ("T" :> "t") @@
    ("a" :> "a") @@ ("b" :> "b") @@ ("e" :> "e") @@ ("t" :> "t") @@ ("z" :> "z")

to_lowercase(s) == [i \in 1..Len(s) |-> LowerOf[s[i]]]

\* str::contains: the needle occurs as a contiguous substring
contains(hay, needle) ==
    \E i \in 0..(Len(hay) - Len(needle)) :
        SubSeq(hay, i + 1, i + Len(needle)) = needle

\* f64::NAN, a value apart from every number of the snapshots
NaN == -1000

is_nan(x) == x = NaN

\* the comparison operators of f64: false when an operand is NaN
f64_lt(a, b) == ~is_nan(a) /\ ~is_nan(b) /\ a < b
f64_le(a, b) == ~is_nan(a) /\ ~is_nan(b) /\ a <= b
f64_gt(a, b) == ~is_nan(a) /\ ~is_nan(b) /\ a > b
f64_ge(a, b) == ~is_nan(a) /\ ~is_nan(b) /\ a >= b

\* Ord::cmp, and partial_cmp(..).unwrap() where partial_cmp is not None
num_cmp(a, b) == IF a < b THEN "Less" ELSE IF a > b THEN "Greater" ELSE "Equal"

\* String::cmp: lexicographic on bytes, a proper prefix is Less
RECURSIVE str_cmp(_, _)
str_cmp(a, b) ==
    IF a = << >> /\ b = << >> THEN "Equal"
    ELSE IF a = << >> THEN "Less"
    ELSE IF b = << >> THEN "Greater"
    ELSE IF ByteOf[Head(a)] # ByteOf[Head(b)]
         THEN num_cmp(ByteOf[Head(a)], ByteOf[Head(b)])
         ELSE str_cmp(Tail(a), Tail(b))

\* Vec::retain
RECURSIVE retain(_, _)
retain(s, keep) ==
    IF s = << >> THEN << >>
    ELSE IF Head(s) \in keep THEN <<Head(s)>> \o retain(Tail(s), keep)
         ELSE retain(Tail(s), keep)

\* f64::abs
abs(x) == IF is_nan(x) THEN NaN ELSE IF x < 0 THEN -x ELSE x

(***************************************************************************)
(* Sorting                                                                 *)
(***************************************************************************)
SortModes      == {"Symbol", "Price", "ChangePercent", "Volume"}
SortDirections == {"Ascending", "Descending"}

\* SortMode::next
SortMode_next(m) ==
    CASE m = "Symbol"        -> "Price"
      [] m = "Price"         -> "ChangePercent"
      [] m = "ChangePercent" -> "Volume"
      [] m = "Volume"        -> "Symbol"

\* SortConfig::toggle_direction
toggle_direction(d) == IF d = "Ascending" THEN "Descending" ELSE "Ascending"

\* the comparator closures of sort_price_infos
compare(cfg, a, b) ==
    LET x == IF cfg.direction = "Ascending" THEN a ELSE b
        y == IF cfg.direction = "Ascending" THEN b ELSE a
    IN  CASE cfg.mode = "Symbol"        -> str_cmp(x.symbol, y.symbol)
          [] cfg.mode = "Price"         -> num_cmp(x.price, y.price)
          [] cfg.mode = "ChangePercent" -> num_cmp(x.price_change_percent,
                                                   y.price_change_percent)
          [] cfg.mode = "Volume"        -> num_cmp(x.volume, y.volume)

\* the key the comparator closure of sort_price_infos compares with partial_cmp
sort_key(cfg, p) ==
    CASE cfg.mode = "Price"         -> Some(p.price)
      [] cfg.mode = "ChangePercent" -> Some(p.price_change_percent)
      [] cfg.mode = "Volume"        -> Some(p.volume)
      [] cfg.mode = "Symbol"        -> None

\* slice::sort_by with a closure that unwraps partial_cmp: a slice of two or
\* more elements has each element compared at least once, and a comparison
\* with a NaN key is None, whose unwrap panics
sort_panics(cfg, s) ==
    /\ Len(s) >= 2
    /\ \E i \in 1..Len(s) :
          sort_key(cfg, s[i]) # None /\ is_nan(sort_key(cfg, s[i])[1])

\* slice::sort_by, a stable sort: s[i] goes behind every element that is
\* Less than it and every Equal element that stood before it
sort_by(cfg, s) ==
    LET n == Len(s)
        rank(i) == 1 + Cardinality({j \in 1..n :
                       \/ compare(cfg, s[j], s[i]) = "Less"
                       \/ (compare(cfg, s[j], s[i]) = "Equal" /\ j < i)})
    IN  [k \in 1..n |-> s[CHOOSE i \in 1..n : rank(i) = k]]

\* mutant: the direction is ignored
sort_price_infos_ascending(cfg, infos) ==
    sort_by([cfg EXCEPT !.direction = "Ascending"], infos)

sort_price_infos(cfg, infos) == sort_by(cfg, infos)

(***************************************************************************)
(* Filter / sort pipeline                                                  *)
(***************************************************************************)
Presets == {"All", "TopGainers", "TopLosers", "HighVolume", "Volatile", "Stable"}

\* FilterPreset::next
FilterPreset_next(p) ==
    CASE p = "All"        -> "TopGainers"
      [] p = "TopGainers" -> "TopLosers"
      [] p = "TopLosers"  -> "HighVolume"
      [] p = "HighVolume" -> "Volatile"
      [] p = "Volatile"   -> "Stable"
      [] p = "Stable"     -> "All"

\* mutant: 20% of the rows rounded down
top_count_floor(n) == n \div 5

\* (len as f64 * 0.2).ceil() as usize
top_count(n) == (n + 4) \div 5

\* the volume threshold of the HighVolume preset
min_volume(infos) ==
    LET sorted_by_volume == sort_by([mode |-> "Volume", direction |-> "Descending"], infos)
        k == top_count(Len(infos))
        idx == IF k = 0 THEN 0 ELSE k - 1      \* saturating_sub(1)
    IN  IF idx + 1 <= Len(sorted_by_volume) THEN sorted_by_volume[idx + 1].volume ELSE 0

\* mutant: the threshold presets with inclusive comparisons
apply_preset_filters_inclusive(preset, infos) ==
    LET rows == {infos[i] : i \in 1..Len(infos)}
    IN  CASE preset = "All"        -> infos
          [] preset = "TopGainers" -> retain(infos, {p \in rows : f64_ge(p.price_change_percent, 5)})
          [] preset = "TopLosers"  -> retain(infos, {p \in rows : f64_le(p.price_change_percent, -5)})
          [] preset = "HighVolume" ->
                IF infos = << >> THEN infos
                ELSE retain(infos, {p \in rows : f64_ge(p.volume, min_volume(infos))})
          [] preset = "Volatile"   -> retain(infos, {p \in rows : f64_ge(abs(p.price_change_percent), 3)})
          [] preset = "Stable"     -> retain(infos, {p \in rows : f64_le(abs(p.price_change_percent), 1)})

apply_preset_filters(preset, infos) ==
    LET rows == {infos[i] : i \in 1..Len(infos)}
    IN  CASE preset = "All"        -> infos
          [] preset = "TopGainers" -> retain(infos, {p \in rows : f64_gt(p.price_change_percent, 5)})
          [] preset = "TopLosers"  -> retain(infos, {p \in rows : f64_lt(p.price_change_percent, -5)})
          [] preset = "HighVolume" ->
                IF infos = << >> THEN infos
                ELSE retain(infos, {p \in rows : f64_ge(p.volume, min_volume(infos))})
          [] preset = "Volatile"   -> retain(infos, {p \in rows : f64_gt(abs(p.price_change_percent), 3)})
          [] preset = "Stable"     -> retain(infos, {p \in rows : f64_lt(abs(p.price_change_percent), 1)})

\* mutant: both bounds exclusive
in_range_exclusive(v, min, max) ==
    /\ (min = None \/ f64_gt(v, min[1]))
    /\ (max = None \/ f64_lt(v, max[1]))

\* min.map_or(true, |m| v >= m) && max.map_or(true, |m| v <= m)
in_range(v, min, max) ==
    /\ (min = None \/ f64_ge(v, min[1]))
    /\ (max = None \/ f64_le(v, max[1]))

\* one arm of the match in apply_custom_filters
filter_keeps(f, p) ==
    CASE f.kind = "PriceRange"         -> in_range(p.price, f.min, f.max)
      [] f.kind = "ChangePercentRange" -> in_range(p.price_change_percent, f.min, f.max)
      [] f.kind = "VolumeRange"        -> in_range(p.volume, f.min, f.max)
      [] f.kind = "SymbolSearch"       ->
            \/ f.text = << >>
            \/ contains(to_lowercase(p.symbol), to_lowercase(f.text))

RECURSIVE apply_custom_filters(_, _)
apply_custom_filters(filters, infos) ==
    IF filters = << >> THEN infos
    ELSE apply_custom_filters(Tail(filters),
             retain(infos, {p \in {infos[i] : i \in 1..Len(infos)} :
                                filter_keeps(Head(filters), p)}))

\* App::apply_filters_and_sorting panics: in the sort of the HighVolume
\* preset, or in sort_price_infos on the rows the filters keep (which are
\* rows of all, so without a NaN key in all nothing is to be looked at)
apply_filters_and_sorting_panics(all, preset, filters, cfg) ==
    \/ /\ preset = "HighVolume"
       /\ sort_panics([mode |-> "Volume", direction |-> "Descending"], all)
    \/ /\ ~(/\ preset = "HighVolume"
             /\ sort_panics([mode |-> "Volume", direction |-> "Descending"], all))
       /\ sort_panics(cfg, all)
       /\ sort_panics(cfg, apply_custom_filters(filters,
                                                apply_preset_filters(preset, all)))

\* App::apply_filters_and_sorting, as a function of what it reads
apply_filters_and_sorting(all, preset, filters, cfg) ==
    sort_price_infos(cfg, apply_custom_filters(filters, apply_preset_filters(preset, all)))

\* matches_filter_type
matches_filter_type(existing, new) == existing.kind = new.kind

\* active_filters.retain(|f| !matches!(f, FilterType::SymbolSearch(_)))
without_symbol_search(filters) ==
    retain(filters, {f \in {filters[i] : i \in 1..Len(filters)} : f.kind # "SymbolSearch"})


(***************************************************************************)
(* Selection                                                               *)
(***************************************************************************)
\* mutant: an index past the end goes to the first row
clamp_to_first(idx, n) == IF idx >= n /\ n # 0 THEN 0 ELSE idx

\* update_prices: an index past the end goes to the last row
clamp_to_last(idx, n) == IF idx >= n /\ n # 0 THEN n - 1 ELSE idx

\* mutant: an index past the end goes to the last row
reset_to_last(idx, n) == IF idx >= n /\ n # 0 THEN n - 1 ELSE idx

\* the filter / preset / search operations: an index past the end goes to 0
reset_if_out_of_bounds(idx, n) == IF idx >= n /\ n # 0 THEN 0 ELSE idx

\* App::select_next
select_next(idx, n) == IF n # 0 THEN (idx + 1) % n ELSE idx

\* mutant: the selection stops at the first row instead of wrapping
select_previous_saturating(idx, n) ==
    IF n # 0 THEN (IF idx = 0 THEN 0 ELSE idx - 1) ELSE idx

\* App::select_previous
select_previous(idx, n) ==
    IF n # 0 THEN (IF idx = 0 THEN n - 1 ELSE idx - 1) ELSE idx

\* App::get_selected_symbol: price_infos.get(selected_index)
get_selected_symbol(infos, idx) == IF idx < Len(infos) THEN Some(infos[idx + 1]) ELSE None

\* App::update_candles_for_selected: the new candle cache
update_candles_for_selected(infos, idx, cached_symbol, cached, candles) ==
    IF get_selected_symbol(infos, idx) # None
    THEN [selected_candles |-> candles,
          selected_symbol_candles |-> get_selected_symbol(infos, idx)[1].symbol]
    ELSE [selected_candles |-> cached, selected_symbol_candles |-> cached_symbol]

\* mutant: an empty candle cache does not ask for a fetch
should_fetch_candles_ignoring_empty(infos, idx, cached_symbol, cached) ==
    IF get_selected_symbol(infos, idx) # None
       /\ cached_symbol # get_selected_symbol(infos, idx)[1].symbol
    THEN Some(get_selected_symbol(infos, idx)[1].symbol)
    ELSE None

\* App::should_fetch_candles
should_fetch_candles(infos, idx, cached_symbol, cached) ==
    IF get_selected_symbol(infos, idx) # None
       /\ (\/ cached_symbol # get_selected_symbol(infos, idx)[1].symbol
           \/ cached = << >>)
    THEN Some(get_selected_symbol(infos, idx)[1].symbol)
    ELSE None

\* handle_mouse_click: the new selected_index for a click at (column, row)
handle_mouse_click(idx, n, kind, column, row) ==
    IF kind # "LeftDown" THEN idx
    ELSE IF column < 1 \/ row < 1 THEN idx
    ELSE IF n = 0 THEN idx
    ELSE LET inner_y == row - 1
             crypto_start_y == 1 + 1        \* title_height + top_margin
         IN  IF inner_y < crypto_start_y THEN idx
             ELSE LET clicked_index == (inner_y - crypto_start_y) \div 3   \* crypto_height
                  IN  IF clicked_index < n THEN clicked_index ELSE idx

(***************************************************************************)
(* Alerts                                                                  *)
(***************************************************************************)
RecentAlertsCap == 10

ConditionKinds ==
    {"PriceAbove", "PriceBelow", "PercentChangeAbove", "PercentChangeBelow", "VolumeSpike"}

\* all_price_infos.iter().find(|p| p.symbol == alert.symbol)
find_price_info(infos, symbol) ==
    LET hits == {i \in 1..Len(infos) : infos[i].symbol = symbol}
    IN  IF hits = {} THEN None
        ELSE Some(infos[CHOOSE i \in hits : \A j \in hits : i <= j])

\* mutant: the comparisons of should_trigger made inclusive
should_trigger_inclusive(cond, p) ==
    CASE cond.kind = "PriceAbove"         -> f64_ge(p.price, cond.threshold)
      [] cond.kind = "PriceBelow"         -> f64_le(p.price, cond.threshold)
      [] cond.kind = "PercentChangeAbove" -> f64_ge(p.price_change_percent, cond.threshold)
      [] cond.kind = "PercentChangeBelow" -> f64_le(p.price_change_percent, cond.threshold)
      [] cond.kind = "VolumeSpike"        -> f64_ge(p.volume, cond.threshold)

\* should_trigger
should_trigger(cond, p) ==
    CASE cond.kind = "PriceAbove"         -> f64_gt(p.price, cond.threshold)
      [] cond.kind = "PriceBelow"         -> f64_lt(p.price, cond.threshold)
      [] cond.kind = "PercentChangeAbove" -> f64_gt(p.price_change_percent, cond.threshold)
      [] cond.kind = "PercentChangeBelow" -> f64_lt(p.price_change_percent, cond.threshold)
      [] cond.kind = "VolumeSpike"        -> f64_gt(p.volume, cond.threshold)

\* Duration::num_hours of a duration given in minutes (truncates toward zero)
num_hours(d) == IF d >= 0 THEN d \div 60 ELSE -((-d) \div 60)

\* mutant: the cooldown ends only after more than one full hour
should_notify_after_two_hours(last_triggered, t) ==
    IF last_triggered = None THEN TRUE
    ELSE num_hours(t - last_triggered[1]) > 1

\* should_notify
should_notify(last_triggered, t) ==
    IF last_triggered = None THEN TRUE
    ELSE num_hours(t - last_triggered[1]) >= 1

\* the notification text: the custom message, or the template's arguments
alert_message(alert, p) ==
    IF alert.message # None
    THEN [custom |-> alert.message, kind |-> "", symbol |-> << >>,
          threshold |-> 0, current |-> 0]
    ELSE [custom |-> None, kind |-> alert.condition.kind, symbol |-> alert.symbol,
          threshold |-> alert.condition.threshold,
          current |-> CASE alert.condition.kind \in {"PriceAbove", "PriceBelow"} -> p.price
                        [] alert.condition.kind \in {"PercentChangeAbove", "PercentChangeBelow"}
                               -> p.price_change_percent
                        [] alert.condition.kind = "VolumeSpike" -> p.volume]

\* mutant: a full list drops the newest entry instead of the oldest
push_recent_drop_newest(recent, entry) ==
    LET pushed == Append(recent, entry)
    IN  IF Len(pushed) > RecentAlertsCap THEN recent ELSE pushed

\* recent_alerts.push(..); if len > 10 { remove(0) }
push_recent(recent, entry) ==
    LET pushed == Append(recent, entry)
    IN  IF Len(pushed) > RecentAlertsCap THEN Tail(pushed) ELSE pushed

\* whether the loop body of check_alerts notifies for this alert
alert_fires(alert, infos, t) ==
    /\ alert.enabled
    /\ find_price_info(infos, alert.symbol) # None
    /\ should_trigger(alert.condition, find_price_info(infos, alert.symbol)[1])
    /\ should_notify(alert.last_triggered, t)

\* the loop of check_alerts from alert i on
RECURSIVE check_alerts_from(_, _, _, _, _)
check_alerts_from(i, as, recent, infos, t) ==
    IF i > Len(as) THEN [alerts |-> as, recent_alerts |-> recent]
    ELSE IF alert_fires(as[i], infos, t)
         THEN check_alerts_from(i + 1,
                  [as EXCEPT ![i].last_triggered = Some(t),
                             ![i].trigger_count = @ + 1],
                  push_recent(recent,
                      [message |-> alert_message(as[i], find_price_info(infos, as[i].symbol)[1]),
                       at |-> t]),
                  infos, t)
         ELSE check_alerts_from(i + 1, as, recent, infos, t)

\* App::check_alerts
check_alerts(as, recent, infos, t) == check_alerts_from(1, as, recent, infos, t)

\* App::create_alert: the new alert list and the returned id
create_alert(as, symbol, condition, message, t) ==
    LET id == Len(as) + 1
    IN  [alerts |-> Append(as, [id |-> id, symbol |-> symbol, condition |-> condition,
                                enabled |-> TRUE, created_at |-> t,
                                last_triggered |-> None, trigger_count |-> 0,
                                message |-> message]),
         ret |-> id]

\* mutant: only the first alert with the id is removed
delete_alert_first_only(as, id) ==
    LET hits == {i \in 1..Len(as) : as[i].id = id}
    IN  IF hits = {} THEN [alerts |-> as, ret |-> FALSE]
        ELSE LET first == CHOOSE i \in hits : \A j \in hits : i <= j
             IN  [alerts |-> SubSeq(as, 1, first - 1) \o SubSeq(as, first + 1, Len(as)),
                  ret |-> TRUE]

\* App::delete_alert: the new alert list and the returned bool
delete_alert(as, id) ==
    LET kept == retain(as, {a \in {as[i] : i \in 1..Len(as)} : a.id # id})
    IN  [alerts |-> kept, ret |-> Len(kept) < Len(as)]

\* mutant: toggling also forgets when the alert last triggered
toggle_alert_resetting(as, id) ==
    LET hits == {i \in 1..Len(as) : as[i].id = id}
    IN  IF hits = {} THEN [alerts |-> as, ret |-> FALSE]
        ELSE LET first == CHOOSE i \in hits : \A j \in hits : i <= j
             IN  [alerts |-> [as EXCEPT ![first].enabled = ~@,
                                        ![first].last_triggered = None],
                  ret |-> TRUE]

\* App::toggle_alert
toggle_alert(as, id) ==
    LET hits == {i \in 1..Len(as) : as[i].id = id}
    IN  IF hits = {} THEN [alerts |-> as, ret |-> FALSE]
        ELSE LET first == CHOOSE i \in hits : \A j \in hits : i <= j
             IN  [alerts |-> [as EXCEPT ![first].enabled = ~@], ret |-> TRUE]

(***************************************************************************)
(* Data freshness                                                          *)
(***************************************************************************)
OfflineThreshold == 3

\* mutant: a successful sync also leaves offline mode
record_successful_sync_clears_offline(ds, t) ==
    [ds EXCEPT !.last_successful_sync = Some(t),
               !.last_price_update = Some(t),
               !.consecutive_failures = 0,
               !.offline_mode = FALSE]

\* App::record_successful_sync
record_successful_sync(ds, t) ==
    [ds EXCEPT !.last_successful_sync = Some(t),
               !.last_price_update = Some(t),
               !.consecutive_failures = 0]

\* mutant: offline mode only after more than three failures
record_sync_failure_late(ds) ==
    LET failures == ds.consecutive_failures + 1
    IN  [ds EXCEPT !.consecutive_failures = failures,
                   !.offline_mode = IF failures > OfflineThreshold THEN TRUE ELSE @]

\* App::record_sync_failure
record_sync_failure(ds) ==
    LET failures == ds.consecutive_failures + 1
    IN  [ds EXCEPT !.consecutive_failures = failures,
                   !.offline_mode = IF failures >= OfflineThreshold THEN TRUE ELSE @]

\* mutant: the toggle resets the failure count in both directions
toggle_offline_mode_always_resets(ds) ==
    [ds EXCEPT !.offline_mode = ~ds.offline_mode,
               !.consecutive_failures = 0]

\* App::toggle_offline_mode
toggle_offline_mode(ds) ==
    LET offline == ~ds.offline_mode
    IN  [ds EXCEPT !.offline_mode = offline,
                   !.consecutive_failures = IF offline THEN 0 ELSE @]

\* App::get_data_age_string: the text's bucket and number
get_data_age_string(ds, t) ==
    IF ds.last_successful_sync = None THEN <<"never">>
    ELSE LET minutes == t - ds.last_successful_sync[1]
         IN  IF minutes < 1 THEN <<"just now">>
             ELSE IF minutes < 60 THEN <<"m ago", minutes>>
             ELSE IF num_hours(minutes) < 24 THEN <<"h ago", num_hours(minutes)>>
             ELSE <<"d ago", num_hours(minutes) \div 24>>

\* App::get_offline_indicator: the indicator's kind and what it formats
get_offline_indicator(ds, t) ==
    IF ds.offline_mode THEN [kind |-> "OFFLINE", failures |-> 0, age |-> << >>]
    ELSE IF ds.consecutive_failures > 0
         THEN [kind |-> "failures", failures |-> ds.consecutive_failures, age |-> << >>]
         ELSE [kind |-> "synced", failures |-> 0, age |-> get_data_age_string(ds, t)]


(***************************************************************************)
(* Custom filters and search                                               *)
(***************************************************************************)
RangeFilter(kind, min, max) == [kind |-> kind, min |-> min, max |-> max, text |-> << >>]
SymbolSearch(text) == [kind |-> "SymbolSearch", min |-> None, max |-> None, text |-> text]

\* mutant: the new filter is pushed without removing the old one of its kind
add_filter_push_only(filters, f) == Append(filters, f)

\* add_filter: retain the other kinds, push the new filter
add_filter(filters, f) ==
    Append(retain(filters, {g \in {filters[i] : i \in 1..Len(filters)} :
                               ~matches_filter_type(g, f)}), f)

\* remove_filter: retain the other kinds
remove_filter(filters, f) ==
    retain(filters, {g \in {filters[i] : i \in 1..Len(filters)} :
                        ~matches_filter_type(g, f)})

\* mutant: a SymbolSearch is pushed for an empty query too
search_filters_keep_empty(filters, query) ==
    Append(without_symbol_search(filters), SymbolSearch(query))

\* apply_search_filter: the new active_filters for the current query
search_filters(filters, query) ==
    IF query # << >>
    THEN Append(without_symbol_search(filters), SymbolSearch(query))
    ELSE without_symbol_search(filters)

\* String::pop
pop(s) == IF s = << >> THEN s ELSE SubSeq(s, 1, Len(s) - 1)

(***************************************************************************)
(* State after App::new                                                    *)
(***************************************************************************)
\* op: the method; arg: its id argument; returned_bool / returned_id: the value
\* it returned, by type (a u32 id from create_alert, a bool from the others)
Call(op, arg, returned_bool, returned_id) ==
    [op |-> op, arg |-> arg, returned_bool |-> returned_bool, returned_id |-> returned_id]

InitApp ==
    /\ all_price_infos = << >>
    /\ price_infos = << >>
    /\ selected_index = 0
    /\ sort_config = [mode |-> "Symbol", direction |-> "Ascending"]
    /\ active_filters = << >>
    /\ active_preset = "All"
    /\ search_mode = FALSE
    /\ search_query = << >>
    /\ data_status = [last_price_update |-> None, last_successful_sync |-> None,
                      offline_mode |-> FALSE, consecutive_failures |-> 0]
    /\ alerts = << >>
    /\ recent_alerts = << >>
    /\ now = 0
    /\ last_call = Call("new", << >>, << >>, << >>)
    /\ selected_candles = << >>
    /\ selected_symbol_candles = << >>
    /\ errors = << >>
    /\ paused = FALSE
    /\ show_help = FALSE
    /\ db_candles = << >>
    /\ events = << >>
    /\ run_loop = "load_cache"

\* App::new with a configuration that names no symbol; the operations of
\* the App do not read config.symbols
Init == InitApp /\ symbols = << >>

(***************************************************************************)
(* Operations of the App                                                   *)
(***************************************************************************)
\* a panic: the thread that runs the App unwinds
Panic ==
    /\ run_loop' = "panicked"
    /\ UNCHANGED <<view_vars, data_status, alert_vars, now, last_call,
                   selected_candles, selected_symbol_candles, errors, paused,
                   show_help, symbols, db_candles, events>>

\* App::update_prices panics in apply_filters_and_sorting
update_prices_panics(infos) ==
    apply_filters_and_sorting_panics(infos, active_preset, active_filters, sort_config)

\* mutant: the alerts are evaluated on the rows the filters leave visible
update_prices_assigns_alerts_on_visible(infos) ==
    LET visible == apply_filters_and_sorting(infos, active_preset, active_filters, sort_config)
        checked == check_alerts(alerts, recent_alerts, visible, now)
    IN  /\ \A i \in 1..Len(alerts) :
               alert_fires(alerts[i], visible, now) => alerts[i].trigger_count < MaxTriggers
        /\ all_price_infos' = infos
        /\ alerts' = checked.alerts
        /\ recent_alerts' = checked.recent_alerts
        /\ price_infos' = visible
        /\ selected_index' = clamp_to_last(selected_index, Len(visible))

\* App::update_prices: the fields it assigns
update_prices_assigns(infos) ==
    LET checked == check_alerts(alerts, recent_alerts, infos, now)
        visible == apply_filters_and_sorting(infos, active_preset, active_filters, sort_config)
    IN  /\ \A i \in 1..Len(alerts) :
               alert_fires(alerts[i], infos, now) => alerts[i].trigger_count < MaxTriggers
        /\ all_price_infos' = infos
        /\ alerts' = checked.alerts
        /\ recent_alerts' = checked.recent_alerts
        /\ price_infos' = visible
        /\ selected_index' = clamp_to_last(selected_index, Len(visible))

\* App::update_prices
UpdatePrices(infos) ==
    IF update_prices_panics(infos) THEN Panic
    ELSE /\ update_prices_assigns(infos)
         /\ UNCHANGED <<last_call, aux_vars>>
         /\ UNCHANGED <<sort_config, active_filters, active_preset, search_mode,
                        search_query, data_status, now>>

\* App::next_sort_mode
NextSortMode ==
    LET cfg == [sort_config EXCEPT !.mode = SortMode_next(@)]
    IN  IF sort_panics(cfg, price_infos) THEN Panic
        ELSE
        /\ sort_config' = cfg
        /\ price_infos' = IF price_infos # << >> THEN sort_price_infos(cfg, price_infos)
                          ELSE price_infos
        /\ UNCHANGED <<last_call, aux_vars>>
        /\ UNCHANGED <<all_price_infos, selected_index, active_filters, active_preset,
                       search_mode, search_query, data_status, alert_vars, now>>

\* App::toggle_sort_direction
ToggleSortDirection ==
    LET cfg == [sort_config EXCEPT !.direction = toggle_direction(@)]
    IN  IF sort_panics(cfg, price_infos) THEN Panic
        ELSE
        /\ sort_config' = cfg
        /\ price_infos' = IF price_infos # << >> THEN sort_price_infos(cfg, price_infos)
                          ELSE price_infos
        /\ UNCHANGED <<last_call, aux_vars>>
        /\ UNCHANGED <<all_price_infos, selected_index, active_filters, active_preset,
                       search_mode, search_query, data_status, alert_vars, now>>

\* App::select_next
SelectNext ==
    /\ selected_index' = select_next(selected_index, Len(price_infos))
    /\ UNCHANGED <<last_call, aux_vars>>
    /\ UNCHANGED <<all_price_infos, price_infos, sort_config, active_filters, active_preset,
                   search_mode, search_query, data_status, alert_vars, now>>

\* App::select_previous
SelectPrevious ==
    /\ selected_index' = select_previous(selected_index, Len(price_infos))
    /\ UNCHANGED <<last_call, aux_vars>>
    /\ UNCHANGED <<all_price_infos, price_infos, sort_config, active_filters, active_preset,
                   search_mode, search_query, data_status, alert_vars, now>>

\* handle_mouse_click (main.rs)
HandleMouseClick(kind, column, row) ==
    /\ selected_index' = handle_mouse_click(selected_index, Len(price_infos), kind, column, row)
    /\ UNCHANGED <<last_call, aux_vars>>
    /\ UNCHANGED <<all_price_infos, price_infos, sort_config, active_filters, active_preset,
                   search_mode, search_query, data_status, alert_vars, now>>

\* App::enter_search_mode
EnterSearchMode ==
    /\ search_mode' = TRUE
    /\ search_query' = << >>
    /\ active_filters' = without_symbol_search(active_filters)
    /\ UNCHANGED <<last_call, aux_vars>>
    /\ UNCHANGED <<all_price_infos, price_infos, selected_index, sort_config, active_preset,
                   data_status, alert_vars, now>>

\* App::exit_search_mode
ExitSearchMode ==
    LET filters == without_symbol_search(active_filters)
    IN  IF apply_filters_and_sorting_panics(all_price_infos, active_preset,
                                            filters, sort_config) THEN Panic
        ELSE
        /\ search_mode' = FALSE
        /\ search_query' = << >>
        /\ active_filters' = filters
        /\ price_infos' = apply_filters_and_sorting(all_price_infos, active_preset,
                                                    filters, sort_config)
        /\ UNCHANGED <<last_call, aux_vars>>
        /\ UNCHANGED <<all_price_infos, selected_index, sort_config, active_preset,
                       data_status, alert_vars, now>>

\* App::apply_search_filter, run with the query the caller has just edited
ApplySearchFilter(query) ==
    LET filters == search_filters(active_filters, query)
        visible == apply_filters_and_sorting(all_price_infos, active_preset,
                                             filters, sort_config)
    IN  IF apply_filters_and_sorting_panics(all_price_infos, active_preset,
                                            filters, sort_config) THEN Panic
        ELSE
        /\ search_query' = query
        /\ active_filters' = filters
        /\ price_infos' = visible
        /\ selected_index' = reset_if_out_of_bounds(selected_index, Len(visible))
        /\ UNCHANGED <<all_price_infos, sort_config, active_preset, search_mode,
                       data_status, alert_vars, now, last_call, aux_vars>>

\* App::update_search_query
UpdateSearchQuery(c) ==
    /\ Len(search_query) < MaxQuery
    /\ ApplySearchFilter(Append(search_query, c))

\* App::backspace_search
BackspaceSearch == ApplySearchFilter(pop(search_query))

\* the tail shared by the preset and filter operations
Refilter(preset, filters) ==
    LET visible == apply_filters_and_sorting(all_price_infos, preset, filters, sort_config)
    IN  IF apply_filters_and_sorting_panics(all_price_infos, preset, filters,
                                            sort_config) THEN Panic
        ELSE
        /\ active_preset' = preset
        /\ active_filters' = filters
        /\ price_infos' = visible
        /\ selected_index' = reset_if_out_of_bounds(selected_index, Len(visible))
        /\ UNCHANGED <<all_price_infos, sort_config, search_mode, search_query,
                       data_status, alert_vars, now, last_call, aux_vars>>

\* App::next_filter_preset
NextFilterPreset == Refilter(FilterPreset_next(active_preset), active_filters)

\* mutant: the new preset is applied to the rows the old preset left
SetFilterPreset_on_visible(preset) ==
    LET visible == apply_filters_and_sorting(price_infos, preset, active_filters, sort_config)
    IN  /\ active_preset' = preset
        /\ price_infos' = visible
        /\ selected_index' = reset_if_out_of_bounds(selected_index, Len(visible))
        /\ UNCHANGED <<all_price_infos, active_filters, sort_config, search_mode,
                       search_query, data_status, alert_vars, now, last_call, aux_vars>>

\* App::set_filter_preset
SetFilterPreset(preset) == Refilter(preset, active_filters)

\* App::add_filter
AddFilter(f) == Refilter(active_preset, add_filter(active_filters, f))

\* App::remove_filter
RemoveFilter(f) == Refilter(active_preset, remove_filter(active_filters, f))

\* App::clear_all_filters
ClearAllFilters ==
    IF apply_filters_and_sorting_panics(all_price_infos, "All", << >>, sort_config)
    THEN Panic
    ELSE /\ active_filters' = << >>
         /\ active_preset' = "All"
         /\ price_infos' = apply_filters_and_sorting(all_price_infos, "All", << >>,
                                                     sort_config)
         /\ selected_index' = 0
         /\ UNCHANGED <<last_call, aux_vars>>
         /\ UNCHANGED <<all_price_infos, sort_config, search_mode, search_query,
                        data_status, alert_vars, now>>

\* App::record_successful_sync
RecordSuccessfulSync ==
    /\ data_status' = record_successful_sync(data_status, now)
    /\ UNCHANGED <<last_call, aux_vars>>
    /\ UNCHANGED <<view_vars, alert_vars, now>>

\* App::record_sync_failure
RecordSyncFailure ==
    /\ data_status.consecutive_failures < MaxFailures
    /\ data_status' = record_sync_failure(data_status)
    /\ UNCHANGED <<last_call, aux_vars>>
    /\ UNCHANGED <<view_vars, alert_vars, now>>

\* App::toggle_offline_mode
ToggleOfflineMode ==
    /\ data_status' = toggle_offline_mode(data_status)
    /\ UNCHANGED <<last_call, aux_vars>>
    /\ UNCHANGED <<view_vars, alert_vars, now>>

\* App::create_alert
CreateAlert(symbol, condition, message) ==
    LET made == create_alert(alerts, symbol, condition, message, now)
    IN  /\ Len(alerts) < MaxAlerts
        /\ alerts' = made.alerts
        /\ last_call' = Call("create_alert", << >>, << >>, <<made.ret>>)
        /\ UNCHANGED aux_vars
        /\ UNCHANGED <<view_vars, data_status, recent_alerts, now>>

\* App::delete_alert
DeleteAlert(id) ==
    LET done == delete_alert(alerts, id)
    IN  /\ alerts' = done.alerts
        /\ last_call' = Call("delete_alert", <<id>>, <<done.ret>>, << >>)
        /\ UNCHANGED aux_vars
        /\ UNCHANGED <<view_vars, data_status, recent_alerts, now>>

\* App::toggle_alert
ToggleAlert(id) ==
    LET done == toggle_alert(alerts, id)
    IN  /\ alerts' = done.alerts
        /\ last_call' = Call("toggle_alert", <<id>>, <<done.ret>>, << >>)
        /\ UNCHANGED aux_vars
        /\ UNCHANGED <<view_vars, data_status, recent_alerts, now>>

\* App::check_alerts, called on its own
CheckAlerts ==
    LET checked == check_alerts(alerts, recent_alerts, all_price_infos, now)
    IN  /\ \A i \in 1..Len(alerts) :
               alert_fires(alerts[i], all_price_infos, now)
                   => alerts[i].trigger_count < MaxTriggers
        /\ alerts' = checked.alerts
        /\ recent_alerts' = checked.recent_alerts
        /\ UNCHANGED <<last_call, aux_vars>>
        /\ UNCHANGED <<view_vars, data_status, now>>

\* App::clear_recent_alerts
ClearRecentAlerts ==
    /\ recent_alerts' = << >>
    /\ UNCHANGED <<last_call, aux_vars>>
    /\ UNCHANGED <<view_vars, data_status, alerts, now>>

\* App::update_candles_for_selected
UpdateCandlesForSelected(candles) ==
    LET cache == update_candles_for_selected(price_infos, selected_index,
                     selected_symbol_candles, selected_candles, candles)
    IN  /\ selected_candles' = cache.selected_candles
        /\ selected_symbol_candles' = cache.selected_symbol_candles
        /\ UNCHANGED <<view_vars, data_status, alert_vars, now, last_call,
                       errors, paused, show_help, symbols, db_candles, events, run_loop>>

\* App::add_error: the entry starts unresolved with retry_count 0
add_error(errs, error_type) ==
    Append(errs, [error_type |-> error_type, resolved |-> FALSE,
                  retry_count |-> 0])

\* mutant: an out-of-range index resolves the last entry
resolve_error_clamped(errs, index) ==
    IF errs = << >> THEN errs
    ELSE LET i == IF index < Len(errs) THEN index + 1 ELSE Len(errs)
         IN  [errs EXCEPT ![i].resolved = TRUE]

\* App::resolve_error: errors.get_mut(index), nothing when out of range
resolve_error(errs, index) ==
    IF index < Len(errs) THEN [errs EXCEPT ![index + 1].resolved = TRUE]
    ELSE errs

\* App::clear_resolved_errors: errors.retain(|e| !e.resolved)
clear_resolved_errors(errs) ==
    retain(errs, {errs[i] : i \in {j \in DOMAIN errs : ~errs[j].resolved}})

\* App::get_active_error_count
get_active_error_count(errs) == Len(clear_resolved_errors(errs))

\* App::retry_failed_operations: retry_count += 1 on every unresolved entry
retry_failed_operations(errs) ==
    [i \in DOMAIN errs |->
        IF errs[i].resolved THEN errs[i]
        ELSE [errs[i] EXCEPT !.retry_count = @ + 1]]

error_frame == <<view_vars, data_status, alert_vars, now, last_call,
                 selected_candles, selected_symbol_candles, paused,
                 show_help, symbols, db_candles, events, run_loop>>

AddError(error_type) ==
    /\ Len(errors) < MaxErrors
    /\ errors' = add_error(errors, error_type)
    /\ UNCHANGED error_frame

ResolveError(index) ==
    /\ errors' = resolve_error(errors, index)
    /\ UNCHANGED error_frame

ClearResolvedErrors ==
    /\ errors' = clear_resolved_errors(errors)
    /\ UNCHANGED error_frame

RetryFailedOperations ==
    /\ \A i \in DOMAIN errors : errors[i].retry_count < MaxRetries
    /\ errors' = retry_failed_operations(errors)
    /\ UNCHANGED error_frame

\* time passes between two calls
Tick(minutes) ==
    /\ now + minutes <= MaxTime
    /\ now' = now + minutes
    /\ UNCHANGED <<view_vars, data_status, alert_vars, last_call, aux_vars>>


(***************************************************************************)
(* Inputs                                                                  *)
(***************************************************************************)
PriceInfo(symbol, price, change, volume) ==
    [symbol |-> symbol, price |-> price, price_change_percent |-> change, volume |-> volume]

\* every sequence over pool of length at most n
SeqsUpTo(pool, n) == UNION {[1..k -> pool] : k \in 0..n}

BT == <<"B", "T">>
ET == <<"E", "T">>
AB == <<"A", "B">>

\* rows with a price tie (BT, ET) and a volume tie (ET, AB), one per preset band
ViewPool ==
    {PriceInfo(BT, 1, 6, 3), PriceInfo(ET, 1, -6, 1), PriceInfo(AB, 2, 0, 1)}

ViewSnapshots == SeqsUpTo(ViewPool, MaxRows)

ViewFilters == {RangeFilter("PriceRange", None, Some(1))}

ViewChars == {"T", "z"}

\* mouse events: <<kind, column, row>>
Clicks == {<<"LeftDown", 1, 3>>, <<"LeftDown", 1, 6>>, <<"LeftDown", 1, 9>>,
           <<"LeftDown", 1, 2>>, <<"LeftDown", 0, 3>>, <<"Moved", 1, 6>>}

(***************************************************************************)
(* The view: snapshot, presets, filters, search, sorting, selection        *)
(***************************************************************************)
NextView ==
    \/ \E infos \in ViewSnapshots : UpdatePrices(infos)
    \/ \E preset \in Presets : SetFilterPreset(preset)
    \/ NextFilterPreset
    \/ \E f \in ViewFilters : AddFilter(f)
    \/ \E f \in ViewFilters : RemoveFilter(f)
    \/ ClearAllFilters
    \/ NextSortMode
    \/ ToggleSortDirection
    \/ EnterSearchMode
    \/ ExitSearchMode
    \/ \E c \in ViewChars : UpdateSearchQuery(c)
    \/ BackspaceSearch
    \/ SelectNext
    \/ SelectPrevious
    \/ \E click \in Clicks : HandleMouseClick(click[1], click[2], click[3])

SpecView == Init /\ [][NextView]_vars


(***************************************************************************)
(* Claims about the view                                                   *)
(***************************************************************************)
\* C1: after every public operation price_infos is the pipeline applied to
\* the current state: all_price_infos filtered by the active preset, then
\* by every active custom filter, then stably sorted by sort_config.
C1_VisibleIsPipeline ==
    price_infos = apply_filters_and_sorting(all_price_infos, active_preset,
                                            active_filters, sort_config)

\* C2: whenever price_infos is non-empty, selected_index < price_infos.len().
C2_SelectionInBounds ==
    price_infos # << >> => selected_index < Len(price_infos)


(***************************************************************************)
(* Data freshness: sync results, the offline toggle, refreshes, time       *)
(***************************************************************************)
SyncSnapshots == {<< >>, <<PriceInfo(BT, 1, 6, 3)>>}

SyncTicks == {30}

NextSync ==
    \/ RecordSuccessfulSync
    \/ RecordSyncFailure
    \/ ToggleOfflineMode
    \/ \E infos \in SyncSnapshots : UpdatePrices(infos)
    \/ \E minutes \in SyncTicks : Tick(minutes)

SpecSync == Init /\ [][NextSync]_vars

\* C4: from consecutive_failures = 0 and offline_mode = false, offline_mode
\* is still false after the first and after the second consecutive
\* record_sync_failure and is true after the third.
C4_ThirdFailureGoesOffline ==
    [][RecordSyncFailure /\ ~data_status.offline_mode =>
          /\ data_status.consecutive_failures = 0 =>
                (~data_status'.offline_mode /\ data_status'.consecutive_failures = 1)
          /\ data_status.consecutive_failures = 1 =>
                (~data_status'.offline_mode /\ data_status'.consecutive_failures = 2)
          /\ data_status.consecutive_failures = 2 =>
                (data_status'.offline_mode /\ data_status'.consecutive_failures = 3)]_vars

\* C4 witness: three failures in a row, never a sync, have switched offline on
C4_Witness ==
    /\ data_status.offline_mode
    /\ data_status.consecutive_failures = 3
    /\ data_status.last_successful_sync = None

\* C5: once offline_mode is true it stays true across record_successful_sync,
\* record_sync_failure and update_prices; only toggle_offline_mode changes
\* offline_mode from true to false.
C5_OfflineSticky ==
    [][(data_status.offline_mode /\ ~data_status'.offline_mode) => ToggleOfflineMode]_vars

\* C5 witness: offline, and a sync has succeeded and a snapshot has arrived
\* after the failures that switched it on
C5_Witness ==
    /\ data_status.offline_mode
    /\ data_status.consecutive_failures = 0
    /\ data_status.last_successful_sync = Some(now)
    /\ now > 0
    /\ all_price_infos # << >>

C7_ToggleAfterAutoOffline ==
    [][(ToggleOfflineMode /\ data_status.offline_mode
            /\ data_status.consecutive_failures >= OfflineThreshold) =>
          /\ ~data_status'.offline_mode
          /\ data_status'.consecutive_failures = 0
          /\ get_offline_indicator(data_status', now').kind = "synced"]_vars


(***************************************************************************)
(* Alerts: creation, deletion, toggling                                    *)
(***************************************************************************)
PriceAbove(x) == [kind |-> "PriceAbove", threshold |-> x]

AlertIds == 1..(MaxAlerts + 1)

HasId(as, id) == \E i \in 1..Len(as) : as[i].id = id

NextAlertCrud ==
    \/ \E symbol \in {BT, ET} : CreateAlert(symbol, PriceAbove(1), None)
    \/ \E id \in AlertIds : DeleteAlert(id)
    \/ \E id \in AlertIds : ToggleAlert(id)
    \/ UpdatePrices(<<PriceInfo(BT, 2, 0, 1)>>)

SpecAlertCrud == Init /\ [][NextAlertCrud]_vars

\* C8: the ids of the alerts in the alert list are pairwise distinct.
C8_AlertIdsUnique ==
    \A i, j \in 1..Len(alerts) : i # j => alerts[i].id # alerts[j].id

\* C9: delete_alert(id) returns true exactly when an alert had that id, and
\* afterwards no alert has it, so a following toggle_alert(id) returns false
\* and changes nothing; delete_alert and toggle_alert on an absent id return
\* false and leave the alert list unchanged.
C9_DeleteThenToggle ==
    [][\A id \in AlertIds :
          /\ DeleteAlert(id) =>
                /\ last_call'.returned_bool = <<HasId(alerts, id)>>
                /\ ~HasId(alerts', id)
                /\ toggle_alert(alerts', id) = [alerts |-> alerts', ret |-> FALSE]
                /\ ~HasId(alerts, id) => alerts' = alerts
          /\ (ToggleAlert(id) /\ ~HasId(alerts, id)) =>
                /\ last_call'.returned_bool = <<FALSE>>
                /\ alerts' = alerts]_vars

\* C9 witness: a delete_alert that found its id has returned true, and
\* another alert is still in the list
C9_Witness ==
    /\ last_call.op = "delete_alert"
    /\ last_call.returned_bool = <<TRUE>>
    /\ alerts # << >>

(***************************************************************************)
(* Alerts: evaluation and the one-hour cooldown                            *)
(***************************************************************************)
CooldownSnapshots == {<<PriceInfo(BT, 2, 0, 1)>>, <<PriceInfo(BT, 1, 0, 1)>>}

CooldownTicks == {59, 60, 61}

NextCooldown ==
    \/ CreateAlert(BT, PriceAbove(1), None)
    \/ ToggleAlert(1)
    \/ \E infos \in CooldownSnapshots : UpdatePrices(infos)
    \/ CheckAlerts
    \/ \E minutes \in CooldownTicks : Tick(minutes)

SpecCooldown == Init /\ [][NextCooldown]_vars

\* the alert is enabled and its condition holds on the snapshot
ConditionHolds(alert, infos) ==
    /\ alert.enabled
    /\ \E k \in 1..Len(infos) :
          /\ infos[k].symbol = alert.symbol
          /\ \A j \in 1..(k - 1) : infos[j].symbol # alert.symbol
          /\ should_trigger(alert.condition, infos[k])

\* the alert has never triggered, or did so at least 60 minutes ago
CooldownOver(alert, t) ==
    alert.last_triggered = None \/ t - alert.last_triggered[1] >= 60

Min(a, b) == IF a <= b THEN a ELSE b

\* C3: for each enabled alert whose condition holds on the evaluated
\* snapshot, an evaluation (update_prices / check_alerts) increments
\* trigger_count, stamps last_triggered and appends a recent-alert entry if
\* and only if last_triggered is unset or at least 60 minutes old; each alert
\* is judged by its own last_triggered alone.
C3_CooldownPerAlert ==
    [][(CheckAlerts \/ \E infos \in CooldownSnapshots : UpdatePrices(infos)) =>
          LET due == {i \in 1..Len(alerts) :
                         /\ ConditionHolds(alerts[i], all_price_infos')
                         /\ CooldownOver(alerts[i], now)}
          IN  /\ Len(alerts') = Len(alerts)
              /\ \A i \in 1..Len(alerts) :
                    ConditionHolds(alerts[i], all_price_infos') =>
                       /\ alerts'[i].trigger_count =
                             alerts[i].trigger_count + (IF i \in due THEN 1 ELSE 0)
                       /\ alerts'[i].last_triggered =
                             IF i \in due THEN Some(now) ELSE alerts[i].last_triggered
              /\ Len(recent_alerts') =
                    Min(RecentAlertsCap, Len(recent_alerts) + Cardinality(due))]_vars

\* C3 witness: two alerts on one symbol; the first has triggered a second
\* time 118 minutes after its first trigger while the second, triggered 59
\* minutes before, has not
C3_Witness ==
    /\ Len(alerts) = 2
    /\ alerts[1].symbol = alerts[2].symbol
    /\ alerts[1].enabled /\ alerts[2].enabled
    /\ now = 118
    /\ alerts[1].last_triggered = Some(118) /\ alerts[1].trigger_count = 2
    /\ alerts[2].last_triggered = Some(59) /\ alerts[2].trigger_count = 1
    /\ Len(recent_alerts) = 3

(***************************************************************************)
(* Alerts: the list of recent notifications                                *)
(***************************************************************************)
RingSnapshots == {<<PriceInfo(BT, 2, 0, 1)>>, <<PriceInfo(BT, 3, 0, 1)>>}

NextRing ==
    \/ CreateAlert(BT, PriceAbove(1), None)
    \/ DeleteAlert(Len(alerts))     \* the id of the alert created last
    \/ \E infos \in RingSnapshots : UpdatePrices(infos)

SpecRing == Init /\ [][NextRing]_vars

\* the entries an evaluation of snapshot infos at time t produces, in alert order
RECURSIVE NewEntries(_, _, _)
NewEntries(as, infos, t) ==
    IF as = << >> THEN << >>
    ELSE (IF ConditionHolds(Head(as), infos) /\ CooldownOver(Head(as), t)
          THEN <<[message |-> alert_message(Head(as), find_price_info(infos, Head(as).symbol)[1]),
                  at |-> t]>>
          ELSE << >>) \o NewEntries(Tail(as), infos, t)

\* the last n elements of s
LastN(s, n) == IF Len(s) <= n THEN s ELSE SubSeq(s, Len(s) - n + 1, Len(s))

\* C10: recent_alerts never holds more than 10 entries; an evaluation appends
\* the entries of the alerts that trigger, in order, and keeps the 10 newest:
\* the oldest entries are evicted and the new ones come last, also when
\* several alerts trigger within one update_prices call.
C10_RecentAlertsRing ==
    /\ [](Len(recent_alerts) <= 10)
    /\ [][(\E infos \in RingSnapshots : UpdatePrices(infos)) =>
             recent_alerts' =
                 LastN(recent_alerts \o NewEntries(alerts, all_price_infos', now), 10)]_vars

\* C10 witness: the list is full, its oldest and newest entries differ, and
\* two alerts are due, so the next update_prices evicts two entries
C10_Witness ==
    /\ Len(recent_alerts) = 10
    /\ recent_alerts[1] # recent_alerts[10]
    /\ Len(alerts) = 2
    /\ \A i \in 1..2 : alerts[i].enabled /\ alerts[i].last_triggered = None

(***************************************************************************)
(* Alerts: which alerts an evaluation touches                              *)
(***************************************************************************)
\* one condition of every kind, threshold 2
EvalConditions == {[kind |-> k, threshold |-> 2] : k \in ConditionKinds}

\* BT rows whose price, change and volume are below, at and above the
\* threshold in turn; a snapshot without BT; the empty snapshot
EvalSnapshots ==
    {<< >>, <<PriceInfo(ET, 3, 3, 3)>>,
     <<PriceInfo(BT, 3, 2, 1)>>, <<PriceInfo(BT, 1, 3, 2)>>, <<PriceInfo(BT, 2, 1, 3)>>}

NextEval ==
    \/ \E cond \in EvalConditions : CreateAlert(BT, cond, None)
    \/ ToggleAlert(1)
    \/ \E infos \in EvalSnapshots : UpdatePrices(infos)
    \/ CheckAlerts

SpecEval == Init /\ [][NextEval]_vars

\* the strict comparison of each condition kind
StrictlyMet(cond, p) ==
    \/ cond.kind = "PriceAbove" /\ p.price > cond.threshold
    \/ cond.kind = "PriceBelow" /\ p.price < cond.threshold
    \/ cond.kind = "PercentChangeAbove" /\ p.price_change_percent > cond.threshold
    \/ cond.kind = "PercentChangeBelow" /\ p.price_change_percent < cond.threshold
    \/ cond.kind = "VolumeSpike" /\ p.volume > cond.threshold

\* the alert is enabled, its symbol is in the snapshot and the comparison holds
Eligible(alert, infos) ==
    /\ alert.enabled
    /\ \E k \in 1..Len(infos) :
          /\ infos[k].symbol = alert.symbol
          /\ \A j \in 1..(k - 1) : infos[j].symbol # alert.symbol
          /\ StrictlyMet(alert.condition, infos[k])

\* C11: an evaluation (update_prices / check_alerts) changes an alert and
\* appends to recent_alerts only if the alert is enabled, a record with its
\* symbol is in the snapshot and the strict comparison of its condition
\* holds; a disabled alert or one whose symbol is absent is left unchanged.
C11_EvaluationOnlyWhenEligible ==
    [][(CheckAlerts \/ \E infos \in EvalSnapshots : UpdatePrices(infos)) =>
          LET touched == {i \in 1..Len(alerts) : alerts'[i] # alerts[i]}
          IN  /\ Len(alerts') = Len(alerts)
              /\ \A i \in touched : Eligible(alerts[i], all_price_infos')
              /\ Len(recent_alerts') = Len(recent_alerts) + Cardinality(touched)
              /\ SubSeq(recent_alerts', 1, Len(recent_alerts)) = recent_alerts]_vars

\* C11 witness: on a BT row with price 2 and volume 3 the PriceAbove(2) alert
\* has not triggered (2 > 2 fails) and the VolumeSpike(2) alert has
C11_Witness ==
    /\ all_price_infos = <<PriceInfo(BT, 2, 1, 3)>>
    /\ Len(alerts) = 2
    /\ alerts[1].condition = [kind |-> "PriceAbove", threshold |-> 2]
    /\ alerts[1].enabled /\ alerts[1].trigger_count = 0
    /\ alerts[2].condition = [kind |-> "VolumeSpike", threshold |-> 2]
    /\ alerts[2].trigger_count = 1 /\ alerts[2].last_triggered = Some(0)
    /\ Len(recent_alerts) = 1

(***************************************************************************)
(* Selection under snapshot, preset and filter changes                     *)
(***************************************************************************)
\* two rows in different preset bands
SelPool == {PriceInfo(AB, 1, 6, 1), PriceInfo(BT, 2, 0, 2)}

SelRows == 3

\* every snapshot of up to SelRows rows of the pool, and one of three
\* distinct rows, the third in yet another preset band
SelSnapshots ==
    SeqsUpTo(SelPool, SelRows)
        \cup {<<PriceInfo(AB, 1, 6, 1), PriceInfo(BT, 2, 0, 2), PriceInfo(ET, 3, -6, 3)>>}

SelFilters == {RangeFilter("PriceRange", None, Some(2))}

NextSelect ==
    \/ \E infos \in SelSnapshots : UpdatePrices(infos)
    \/ \E preset \in Presets : SetFilterPreset(preset)
    \/ NextFilterPreset
    \/ \E f \in SelFilters : AddFilter(f)
    \/ \E f \in SelFilters : RemoveFilter(f)
    \/ ClearAllFilters
    \/ SelectNext
    \/ SelectPrevious

SpecSelect == Init /\ [][NextSelect]_vars

\* C12: after update_prices, a previous selected_index >= the new
\* price_infos.len() becomes len - 1 when the new list is non-empty; a
\* still valid index, or any index on an empty list, is unchanged.
C12_UpdatePricesClamps ==
    [][(\E infos \in SelSnapshots : UpdatePrices(infos)) =>
          selected_index' =
              IF selected_index >= Len(price_infos') /\ price_infos' # << >>
              THEN Len(price_infos') - 1
              ELSE selected_index]_vars

\* C12 witness: the third of three rows is selected, so update_prices with a
\* two-row snapshot moves the selection to index 1 and with a one-row
\* snapshot to index 0
C12_Witness ==
    /\ Len(price_infos) = 3
    /\ selected_index = 2
    /\ active_preset = "All" /\ active_filters = << >>

\* the preset and filter operations that reset conditionally
PresetOrFilterChange ==
    \/ \E preset \in Presets : SetFilterPreset(preset)
    \/ NextFilterPreset
    \/ \E f \in SelFilters : AddFilter(f)
    \/ \E f \in SelFilters : RemoveFilter(f)

\* C13 as stated: after set_filter_preset, next_filter_preset, add_filter,
\* remove_filter or clear_all_filters, selected_index is 0.
C13_FilterChangeResetsSelection ==
    [][(PresetOrFilterChange \/ ClearAllFilters) => selected_index' = 0]_vars

\* C13 amended: set_filter_preset, next_filter_preset, add_filter and
\* remove_filter set selected_index to 0 only when it is >= the new
\* price_infos.len() and the new list is non-empty, and leave it unchanged
\* otherwise; clear_all_filters always sets it to 0.
C13_FilterChangeResetsWhenOutOfBounds ==
    /\ [][PresetOrFilterChange =>
             selected_index' =
                 IF selected_index >= Len(price_infos') /\ price_infos' # << >>
                 THEN 0
                 ELSE selected_index]_vars
    /\ [][ClearAllFilters => selected_index' = 0]_vars

\* C13 witness: the third of three rows is selected and no filter is active,
\* so add_filter(PriceRange(.., 2)) leaves two rows and resets the selection,
\* while set_filter_preset(All) keeps it
C13_Witness ==
    /\ Len(price_infos) = 3
    /\ selected_index = 2
    /\ \A i \in 1..3 : price_infos[i].price = i
    /\ active_filters = << >>

(***************************************************************************)
(* Sorting of the visible list                                             *)
(***************************************************************************)
\* three rows whose order differs by symbol, price, change and volume
SortPool == {PriceInfo(ET, 1, -1, 1), PriceInfo(BT, 3, 2, 2), PriceInfo(AB, 2, 3, 0)}

SortRows == 3

SortSnapshots == SeqsUpTo(SortPool, SortRows)

NextSort ==
    \/ \E infos \in SortSnapshots : UpdatePrices(infos)
    \/ NextSortMode
    \/ ToggleSortDirection

SpecSort == Init /\ [][NextSort]_vars

\* a may stand directly before b in a list ascending by the mode's key
KeyLeq(mode, a, b) ==
    CASE mode = "Symbol"        -> str_cmp(a.symbol, b.symbol) \in {"Less", "Equal"}
      [] mode = "Price"         -> a.price <= b.price
      [] mode = "ChangePercent" -> a.price_change_percent <= b.price_change_percent
      [] mode = "Volume"        -> a.volume <= b.volume

\* every pair of adjacent rows is ordered by cfg
Ordered(cfg, rows) ==
    \A i \in 1..(Len(rows) - 1) :
        IF cfg.direction = "Ascending"
        THEN KeyLeq(cfg.mode, rows[i], rows[i + 1])
        ELSE KeyLeq(cfg.mode, rows[i + 1], rows[i])

NextSortModes ==
    \/ \E infos \in SortSnapshots : UpdatePrices(infos)
    \/ NextSortMode

SpecSortModes == Init /\ [][NextSortModes]_vars

\* C15: with sort mode ChangePercent reached by next_sort_mode and the
\* direction never changed, update_prices lists the highest
\* price_change_percent first.
C15_ChangePercentHighestFirst ==
    [][((\E infos \in SortSnapshots : UpdatePrices(infos))
           /\ sort_config.mode = "ChangePercent")
          => \A i \in 1..(Len(price_infos') - 1) :
                price_infos'[i].price_change_percent
                    >= price_infos'[i + 1].price_change_percent]_vars

(***************************************************************************)
(* Presets as predicates on the rows of a snapshot                         *)
(***************************************************************************)
\* ceil(0.2 * n) = ceil(n / 5)
CeilFifth(n) == CHOOSE k \in 0..n : 5 * k >= n /\ 5 * (k - 1) < n

\* the volume of the k-th record of infos in descending volume order
KthLargestVolume(infos, k) ==
    CHOOSE v \in {infos[i].volume : i \in 1..Len(infos)} :
        /\ Cardinality({i \in 1..Len(infos) : infos[i].volume > v}) < k
        /\ Cardinality({i \in 1..Len(infos) : infos[i].volume >= v}) >= k

\* record r of snapshot infos passes the preset
Passes(preset, infos, r) ==
    CASE preset = "All"        -> TRUE
      [] preset = "TopGainers" -> r.price_change_percent > 5
      [] preset = "TopLosers"  -> r.price_change_percent < -5
      [] preset = "HighVolume" ->
            r.volume >= KthLargestVolume(infos, CeilFifth(Len(infos)))
      [] preset = "Volatile"   -> r.price_change_percent > 3 \/ r.price_change_percent < -3
      [] preset = "Stable"     -> r.price_change_percent < 1 /\ r.price_change_percent > -1

\* the records of infos that pass the preset, in snapshot order
PassingPreset(preset, infos) ==
    LET Test(r) == Passes(preset, infos, r)
    IN  SelectSeq(infos, Test)

(***************************************************************************)
(* The HighVolume preset                                                   *)
(***************************************************************************)
VolRows == 6

\* the volumes 1000, 500, 100, 2000, 800 of the five-record example
ExampleVolumes ==
    <<PriceInfo(BT, 1, 0, 1000), PriceInfo(ET, 1, 0, 500), PriceInfo(AB, 1, 0, 100),
      PriceInfo(<<"T">>, 1, 0, 2000), PriceInfo(<<"E">>, 1, 0, 800)>>

\* n copies of row
Rep(row, n) == [i \in 1..n |-> row]

\* snapshots of up to VolRows rows with volume 1 or 2 (ties), the rows of
\* one volume first, and the example
VolumeSnapshots ==
    LET Lo == PriceInfo(BT, 1, 0, 1)
        Hi == PriceInfo(ET, 1, 0, 2)
        counts == {c \in (0..VolRows) \X (0..VolRows) : c[1] + c[2] <= VolRows}
    IN  {Rep(Hi, c[1]) \o Rep(Lo, c[2]) : c \in counts}
            \cup {Rep(Lo, c[2]) \o Rep(Hi, c[1]) : c \in counts}
            \cup {ExampleVolumes}

NextVolume ==
    \/ \E infos \in VolumeSnapshots : UpdatePrices(infos)
    \/ \E preset \in Presets : SetFilterPreset(preset)

SpecVolume == Init /\ [][NextVolume]_vars

C17_HighVolumeKeepsTwo ==
    [][(SetFilterPreset("HighVolume") /\ all_price_infos = ExampleVolumes
           /\ active_filters = << >>)
          => {price_infos'[i].volume : i \in 1..Len(price_infos')} = {2000, 1000}]_vars

(***************************************************************************)
(* The presets that compare price_change_percent with a threshold          *)
(***************************************************************************)
\* the thresholds 5, -5, 3, -3, 1, -1, one value beyond each, and 0
ThresholdChanges == {-6, -5, -4, -3, -1, 0, 1, 3, 4, 5, 6}

\* no row, one row of every change value, such a row followed by a row at
\* the threshold 5, and nine rows that sit at or beyond every threshold
ThresholdSnapshots ==
    {<< >>}
        \cup {<<PriceInfo(BT, 1, c, 1)>> : c \in ThresholdChanges}
        \cup {<<PriceInfo(BT, 1, c, 1), PriceInfo(BT, 1, 5, 1)>> : c \in ThresholdChanges}
        \cup {<<PriceInfo(BT, 1, 5, 1), PriceInfo(BT, 1, -5, 1), PriceInfo(BT, 1, 3, 1),
                PriceInfo(BT, 1, -3, 1), PriceInfo(BT, 1, 1, 1), PriceInfo(BT, 1, -1, 1),
                PriceInfo(BT, 1, 6, 1), PriceInfo(BT, 1, 0, 1), PriceInfo(BT, 1, -6, 1)>>}

ThresholdPresets == {"All", "TopGainers", "TopLosers", "Volatile", "Stable"}

NextThreshold ==
    \/ \E infos \in ThresholdSnapshots : UpdatePrices(infos)
    \/ \E preset \in ThresholdPresets : SetFilterPreset(preset)

SpecThreshold == Init /\ [][NextThreshold]_vars

\* the change values a preset excludes although they touch its threshold
Boundary(preset) ==
    CASE preset = "All"        -> {}
      [] preset = "TopGainers" -> {5}
      [] preset = "TopLosers"  -> {-5}
      [] preset = "Volatile"   -> {3, -3}
      [] preset = "Stable"     -> {1, -1}

FilterPool == {PriceInfo(BT, 1, 2, 3), PriceInfo(ET, 2, 3, 1), PriceInfo(AB, 3, 1, 2)}

FilterRows == 2

FilterSnapshots == SeqsUpTo(FilterPool, FilterRows)

\* per kind a lower and an upper bound of 2, and a price range of exactly 2
RangeFilters ==
    {RangeFilter(kind, b[1], b[2]) :
         kind \in {"PriceRange", "ChangePercentRange", "VolumeRange"},
         b \in {<<Some(2), None>>, <<None, Some(2)>>}}
        \cup {RangeFilter("PriceRange", Some(2), Some(2))}

NextFilters ==
    \/ \E infos \in FilterSnapshots : UpdatePrices(infos)
    \/ \E f \in RangeFilters : AddFilter(f)
    \/ \E f \in RangeFilters : RemoveFilter(f)
    \/ \E preset \in {"All", "HighVolume"} : SetFilterPreset(preset)

SpecFilters == Init /\ [][NextFilters]_vars

\* the field of record r a range filter of this kind looks at
FieldOf(kind, r) ==
    CASE kind = "PriceRange"         -> r.price
      [] kind = "ChangePercentRange" -> r.price_change_percent
      [] kind = "VolumeRange"        -> r.volume

\* r lies within [min, max] of every range filter of fs; an absent bound
\* does not constrain
WithinAll(fs, r) ==
    \A f \in fs :
        f.kind \in {"PriceRange", "ChangePercentRange", "VolumeRange"} =>
            /\ (f.min # None => FieldOf(f.kind, r) >= f.min[1])
            /\ (f.max # None => FieldOf(f.kind, r) <= f.max[1])

\* the records of infos that pass the preset and lie within every filter of fs
PassingAll(preset, fs, infos) ==
    LET Test(r) == WithinAll(fs, r)
    IN  SelectSeq(PassingPreset(preset, infos), Test)

\* the sequences with the elements of s in any order
Reorderings(s) ==
    {[i \in 1..Len(s) |-> s[p[i]]] :
         p \in {q \in [1..Len(s) -> 1..Len(s)] : \A i, j \in 1..Len(s) : q[i] = q[j] => i = j}}

\* C19: with custom range filters active, price_infos contains exactly the
\* records (that pass the preset) whose price, change percent and volume lie
\* within the corresponding filter's [min, max], bounds inclusive, an absent
\* bound imposing no constraint; the filters are ANDed and the order in
\* which they were added does not matter.
C19_RangeFiltersInclusive ==
    /\ price_infos =
           sort_price_infos(sort_config,
               PassingAll(active_preset,
                          {active_filters[i] : i \in 1..Len(active_filters)},
                          all_price_infos))
    /\ \A fs \in Reorderings(active_filters) :
           apply_filters_and_sorting(all_price_infos, active_preset, fs, sort_config)
               = price_infos

\* C19 witness: a price range of exactly 2 and an upper volume bound of 2
\* are active, and of two records the one with price 2 (on both bounds) and
\* volume 1 is the only one shown
C19_Witness ==
    /\ Len(active_filters) = 2
    /\ active_filters[1] = RangeFilter("VolumeRange", None, Some(2))
    /\ active_filters[2] = RangeFilter("PriceRange", Some(2), Some(2))
    /\ Len(all_price_infos) = 2
    /\ price_infos = <<PriceInfo(ET, 2, 3, 1)>>

(***************************************************************************)
(* Presets replace each other and keep the custom filters                  *)
(***************************************************************************)
\* C20: set_filter_preset and next_filter_preset leave active_filters
\* unchanged; afterwards price_infos contains exactly the records that
\* satisfy the new preset and every custom filter, whatever preset was
\* active before.
C20_PresetReplacesPreset ==
    [][((\E preset \in Presets : SetFilterPreset(preset)) \/ NextFilterPreset) =>
          /\ active_filters' = active_filters
          /\ all_price_infos' = all_price_infos
          /\ price_infos' =
                 sort_price_infos(sort_config,
                     PassingAll(active_preset',
                                {active_filters[i] : i \in 1..Len(active_filters)},
                                all_price_infos))]_vars

\* C20 witness: of three records one passes TopLosers and another one
\* passes both Stable and the price filter; preset Stable is active with the
\* price filter and shows that record
C20_Witness ==
    /\ active_preset = "Stable"
    /\ active_filters = <<RangeFilter("PriceRange", None, Some(2))>>
    /\ Len(all_price_infos) = 3
    /\ \E i \in 1..3 : Passes("TopLosers", all_price_infos, all_price_infos[i])
    /\ price_infos = <<PriceInfo(BT, 2, 0, 2)>>

(***************************************************************************)
(* The list of active custom filters under add, remove and search          *)
(***************************************************************************)
FilterKinds == {"PriceRange", "ChangePercentRange", "VolumeRange", "SymbolSearch"}

\* two filters of the kinds PriceRange and SymbolSearch, one of VolumeRange;
\* one SymbolSearch has an empty text
SearchFilters ==
    {RangeFilter("PriceRange", None, Some(1)), RangeFilter("PriceRange", Some(2), None),
     RangeFilter("VolumeRange", Some(1), None),
     SymbolSearch(<< >>), SymbolSearch(<<"E">>)}

SearchSnapshots == {<< >>, <<PriceInfo(BT, 1, 0, 1), PriceInfo(ET, 2, 0, 1)>>}

SearchChars == {"T", "z"}

NextSearch ==
    \/ \E infos \in SearchSnapshots : UpdatePrices(infos)
    \/ \E f \in SearchFilters : AddFilter(f)
    \/ \E f \in SearchFilters : RemoveFilter(f)
    \/ ClearAllFilters
    \/ EnterSearchMode
    \/ ExitSearchMode
    \/ \E c \in SearchChars : UpdateSearchQuery(c)
    \/ BackspaceSearch

SpecSearch == Init /\ [][NextSearch]_vars

\* the filters of fs that are not of this kind, in their order
OtherKinds(fs, kind) ==
    LET Test(g) == g.kind # kind
    IN  SelectSeq(fs, Test)

\* C21: active_filters holds at most one filter of each kind; add_filter of
\* a kind already present replaces the old filter of that kind and leaves
\* the filters of the other kinds unchanged.
C21_OneFilterPerKind ==
    /\ [](\A kind \in FilterKinds :
             Cardinality({i \in 1..Len(active_filters) :
                             active_filters[i].kind = kind}) <= 1)
    /\ [][\A f \in SearchFilters :
             AddFilter(f) =>
                /\ active_filters' = Append(OtherKinds(active_filters, f.kind), f)
                /\ OtherKinds(active_filters', f.kind)
                       = OtherKinds(active_filters, f.kind)]_vars

\* C21 witness: a price filter was added before the volume filter and then
\* replaced by another price filter, which now stands last; a search filter
\* typed afterwards is the third kind
C21_Witness ==
    active_filters = <<RangeFilter("VolumeRange", Some(1), None),
                       RangeFilter("PriceRange", Some(2), None),
                       SymbolSearch(<<"T">>)>>

\* some active filter is a SymbolSearch with an empty text
HasEmptySearch(fs) ==
    \E i \in 1..Len(fs) : fs[i].kind = "SymbolSearch" /\ fs[i].text = << >>

\* the search-mode operations
SearchOperation ==
    \/ \E c \in SearchChars : UpdateSearchQuery(c)
    \/ BackspaceSearch
    \/ EnterSearchMode
    \/ ExitSearchMode

C23_SelectionWraps ==
    [][LET n == Len(price_infos)
           valid == n # 0 /\ selected_index < n
       IN  /\ (SelectNext /\ valid) =>
                 /\ selected_index' = (selected_index + 1) % n
                 /\ select_previous(selected_index', n) = selected_index
           /\ (SelectPrevious /\ valid) =>
                 /\ selected_index' = (selected_index + n - 1) % n
                 /\ select_next(selected_index', n) = selected_index
           /\ ((SelectNext \/ SelectPrevious) /\ n = 0) =>
                 /\ selected_index' = selected_index
                 /\ get_selected_symbol(price_infos', selected_index') = None]_vars

\* C23 witness: the last of three rows is selected, where select_next wraps
\* to the first row and select_previous has wrapped from it
C23_Witness ==
    /\ Len(price_infos) = 3
    /\ selected_index = 2
    /\ get_selected_symbol(price_infos, selected_index) = Some(price_infos[3])

(***************************************************************************)
(* The candle cache of the selected row                                    *)
(***************************************************************************)
CandleSnapshots ==
    {<< >>, <<PriceInfo(BT, 1, 0, 1)>>, <<PriceInfo(ET, 2, 0, 1)>>,
     <<PriceInfo(BT, 1, 0, 1), PriceInfo(ET, 2, 0, 1)>>,
     <<PriceInfo(AB, 3, 0, 1), PriceInfo(BT, 1, 0, 1), PriceInfo(ET, 2, 0, 1)>>,
     <<PriceInfo(BT, 2, 0, 1), PriceInfo(BT, 1, 0, 1)>>}

\* candle lists, a candle standing for its timestamp
CandleLists == {<< >>, <<1>>, <<1, 2>>}

NextCandles ==
    \/ \E infos \in CandleSnapshots : UpdatePrices(infos)
    \/ SelectNext
    \/ SelectPrevious
    \/ ToggleSortDirection
    \/ \E candles \in CandleLists : UpdateCandlesForSelected(candles)

SpecCandles == Init /\ [][NextCandles]_vars

\* the symbol of the row at selected_index, if there is one
SelectedSymbol(infos, idx) ==
    IF idx < Len(infos) THEN <<infos[idx + 1].symbol>> ELSE << >>

\* what should_fetch_candles returns in the current state
ShouldFetch ==
    should_fetch_candles(price_infos, selected_index,
                         selected_symbol_candles, selected_candles)

\* C24: should_fetch_candles returns the selected row's symbol exactly when
\* a row is selected and the cached symbol differs from it or the cached
\* candle list is empty, else None; after update_candles_for_selected with a
\* non-empty list it returns None, and keeps doing so until the symbol at
\* selected_index changes or the cache is replaced; without a selected row
\* update_candles_for_selected changes nothing.
C24_CandleFetchNeeded ==
    /\ [](LET sel == SelectedSymbol(price_infos, selected_index)
          IN  ShouldFetch =
                  IF sel # << >> /\ (selected_symbol_candles # sel[1]
                                        \/ Len(selected_candles) = 0)
                  THEN sel ELSE << >>)
    /\ [][\A candles \in CandleLists :
             UpdateCandlesForSelected(candles) =>
                IF SelectedSymbol(price_infos, selected_index) = << >>
                THEN UNCHANGED <<selected_candles, selected_symbol_candles>>
                ELSE /\ selected_candles' = candles
                     /\ candles # << >> => ShouldFetch' = None]_vars
    /\ [][(/\ ShouldFetch = None
           /\ SelectedSymbol(price_infos, selected_index) # << >>
           /\ SelectedSymbol(price_infos', selected_index')
                  = SelectedSymbol(price_infos, selected_index)
           /\ UNCHANGED <<selected_candles, selected_symbol_candles>>)
             => ShouldFetch' = None]_vars

\* C24 witness: two rows, candles cached for the selected second row, so no
\* fetch is asked for until the selection moves to the other symbol
C24_Witness ==
    /\ Len(price_infos) = 2
    /\ selected_index = 1
    /\ price_infos[1].symbol # price_infos[2].symbol
    /\ selected_symbol_candles = price_infos[2].symbol
    /\ selected_candles = <<1, 2>>
    /\ ShouldFetch = None

(***************************************************************************)
(* The error log                                                           *)
(***************************************************************************)
ErrorTypes == {"Network", "Database"}

NextErrors ==
    \/ \E error_type \in ErrorTypes : AddError(error_type)
    \/ \E index \in 0..MaxErrors : ResolveError(index)
    \/ ClearResolvedErrors
    \/ RetryFailedOperations
    \/ ToggleOfflineMode
    \/ UpdatePrices(<<PriceInfo(BT, 1, 0, 1)>>)

SpecErrors == Init /\ [][NextErrors]_vars

\* the positions of the unresolved entries
Unresolved(errs) == {i \in DOMAIN errs : ~errs[i].resolved}

\* the entry without its retry counter
Entry(e) == <<e.error_type, e.resolved>>

\* C29: an entry added by add_error is in errors, unresolved and counted by
\* get_active_error_count; every step other than resolve_error and
\* clear_resolved_errors keeps every entry in its place with its resolved
\* flag; resolve_error changes only the flag of the entry at its index and
\* nothing when the index is out of range; clear_resolved_errors removes
\* exactly the resolved entries and keeps the order of the others.
C29_ErrorsStayUntilResolved ==
    /\ [](get_active_error_count(errors) = Cardinality(Unresolved(errors)))
    /\ [][\A error_type \in ErrorTypes :
             AddError(error_type) =>
                /\ Len(errors') = Len(errors) + 1
                /\ SubSeq(errors', 1, Len(errors)) = errors
                /\ Entry(errors'[Len(errors')]) = <<error_type, FALSE>>
                /\ get_active_error_count(errors')
                       = get_active_error_count(errors) + 1]_vars
    /\ [][\A index \in 0..MaxErrors :
             ResolveError(index) =>
                /\ Len(errors') = Len(errors)
                /\ \A i \in DOMAIN errors :
                      errors'[i] = IF i = index + 1
                                   THEN [errors[i] EXCEPT !.resolved = TRUE]
                                   ELSE errors[i]
                /\ index >= Len(errors) => errors' = errors]_vars
    /\ [][ClearResolvedErrors =>
             /\ errors' = SelectSeq(errors, LAMBDA e : ~e.resolved)
             /\ get_active_error_count(errors')
                    = get_active_error_count(errors)]_vars
    /\ [][(~ClearResolvedErrors /\ \A index \in 0..MaxErrors :
                                       ~ResolveError(index)) =>
             /\ Len(errors') >= Len(errors)
             /\ \A i \in DOMAIN errors : Entry(errors'[i]) = Entry(errors[i])
             /\ get_active_error_count(errors')
                    >= get_active_error_count(errors)]_vars

\* C29 witness: a retried unresolved entry sits between two resolved ones,
\* so clearing has to keep it and an index of 3 is out of range
C29_Witness ==
    /\ Len(errors) = 3
    /\ errors[1].resolved
    /\ ~errors[2].resolved
    /\ errors[2].retry_count = 1
    /\ errors[3].resolved
    /\ errors[1].error_type # errors[2].error_type
    /\ get_active_error_count(errors) = 1

(***************************************************************************)
(* The exchange client (src/src/binance.rs)                                *)
(*                                                                         *)
(* Result<T, E> is modelled like Option: the error value is only printed.  *)
(* A text of the exchange's JSON either parses as an f64 or does not.      *)
(***************************************************************************)
Ok(x) == <<x>>
Err   == << >>

Text(value)  == [parses |-> TRUE, value |-> value]
Unparsable   == [parses |-> FALSE, value |-> 0]

\* str::parse::<f64>
parse_f64(text) == IF text.parses THEN Ok(text.value) ELSE Err

\* Result::unwrap_or
unwrap_or(result, default) == IF result # Err THEN result[1] ELSE default

\* validate_symbol_for_api
validate_symbol_for_api(symbol) ==
    /\ ~(Len(symbol) < 6 \/ Len(symbol) > 14)
    /\ \A i \in 1..Len(symbol) : ByteOf[symbol[i]] \in 65..90   \* is_ascii_uppercase
    /\ ~(\/ contains(symbol, <<"H", "T", "T", "P">>)
         \/ contains(symbol, <<":", "/", "/">>)
         \/ contains(symbol, <<"<">>)
         \/ contains(symbol, <<">">>))

\* fetch_price: response.price is None when the request or its decoding failed
fetch_price(symbol, response) ==
    IF ~validate_symbol_for_api(symbol) THEN Err
    ELSE IF response.price = None THEN Err
    ELSE Ok(unwrap_or(parse_f64(response.price[1]), 0))

\* fetch_24hr_stats: response.stats is None when the request or its decoding failed
fetch_24hr_stats(symbol, response) ==
    IF response.stats = None THEN Err ELSE Ok(response.stats[1])

\* the match on (price_result, stats_result) in fetch_price_infos
price_info_of(symbol, price_result, stats_result) ==
    IF price_result # Err /\ stats_result # Err
    THEN PriceInfo(symbol, price_result[1],
                   unwrap_or(parse_f64(stats_result[1].priceChangePercent), 0),
                   unwrap_or(parse_f64(stats_result[1].volume), 0))
    ELSE IF price_result # Err
    THEN PriceInfo(symbol, price_result[1], 0, 0)
    ELSE PriceInfo(symbol, 0, 0, 0)

\* mutant: a symbol whose price request failed is left out
fetch_price_infos_skipping_failures(requested, responses) ==
    LET ok == {i \in 1..Len(requested) :
                  fetch_price(requested[i], responses[i]) # Err}
        records == [i \in 1..Len(requested) |->
                       price_info_of(requested[i],
                                     fetch_price(requested[i], responses[i]),
                                     fetch_24hr_stats(requested[i], responses[i]))]
    IN  Ok(retain(records, {records[i] : i \in ok}))

\* fetch_price_infos: responses[i] is the exchange's answer for requested[i]
fetch_price_infos(requested, responses) ==
    Ok([i \in 1..Len(requested) |->
           price_info_of(requested[i],
                         fetch_price(requested[i], responses[i]),
                         fetch_24hr_stats(requested[i], responses[i]))])

(***************************************************************************)
(* run_loop (src/src/main.rs)                                              *)
(*                                                                         *)
(* The sections of one loop iteration (key or mouse event, periodic        *)
(* refresh, candle fetch) are separate actions: each section is skipped    *)
(* when there is no event, the tick has not elapsed, or no candles arrive. *)
(***************************************************************************)
\* App::toggle_pause
TogglePause ==
    /\ paused' = ~paused
    /\ UNCHANGED <<view_vars, data_status, alert_vars, now, last_call,
                   selected_candles, selected_symbol_candles, errors,
                   show_help, symbols, db_candles, events, run_loop>>

\* App::toggle_help
ToggleHelp ==
    /\ show_help' = ~show_help
    /\ UNCHANGED <<view_vars, data_status, alert_vars, now, last_call,
                   selected_candles, selected_symbol_candles, errors,
                   paused, symbols, db_candles, events, run_loop>>

\* what a snapshot refresh leaves alone
refresh_frame == <<sort_config, active_filters, active_preset, search_mode,
                   search_query, now, last_call, selected_candles,
                   selected_symbol_candles, errors, paused, show_help, symbols, db_candles, events>>

\* mutant: a failed fetch also blanks the snapshot
apply_fetch_result_blanking(fetch_result) ==
    IF fetch_result # Err
    THEN /\ data_status' = record_successful_sync(data_status, now)
         /\ update_prices_assigns(fetch_result[1])
    ELSE /\ data_status.consecutive_failures < MaxFailures
         /\ data_status' = record_sync_failure(data_status)
         /\ all_price_infos' = << >>
         /\ price_infos' = << >>
         /\ UNCHANGED <<selected_index, alert_vars>>

\* the if-let / else around a fetched snapshot once it has been stored
apply_fetch_result(fetch_result) ==
    IF fetch_result # Err
    THEN /\ data_status' = record_successful_sync(data_status, now)
         /\ update_prices_assigns(fetch_result[1])
    ELSE /\ data_status.consecutive_failures < MaxFailures
         /\ data_status' = record_sync_failure(data_status)
         /\ UNCHANGED <<all_price_infos, price_infos, selected_index, alert_vars>>

\* the cached prices read from the database before the first fetch
LoadCachedPrices(cached_prices) ==
    /\ run_loop = "load_cache"
    /\ IF cached_prices # << >> /\ update_prices_panics(cached_prices) THEN Panic
       ELSE /\ IF cached_prices # << >>
               THEN update_prices_assigns(cached_prices)
               ELSE UNCHANGED <<all_price_infos, price_infos, selected_index,
                                alert_vars>>
            /\ run_loop' = "initial_fetch"
            /\ UNCHANGED <<data_status, refresh_frame>>

\* the initial fetch: db.store_price_infos(..).await? returns a store error
InitialFetch(fetch_result, stored) ==
    /\ run_loop = "initial_fetch"
    /\ IF fetch_result # Err /\ ~stored
       THEN /\ run_loop' = "returned_err"
            /\ UNCHANGED <<data_status, all_price_infos, price_infos,
                           selected_index, alert_vars, refresh_frame>>
       ELSE IF fetch_result # Err /\ update_prices_panics(fetch_result[1])
       THEN Panic
       ELSE /\ apply_fetch_result(fetch_result)
            /\ run_loop' = "running"
            /\ UNCHANGED refresh_frame

\* a key is read and the help overlay is closed
AwaitingKey == run_loop = "running" /\ ~show_help

\* any key while the help overlay shows
CloseHelp == run_loop = "running" /\ show_help /\ ToggleHelp

\* KeyCode::Char('q')
Quit ==
    /\ AwaitingKey
    /\ run_loop' = "returned_ok"
    /\ UNCHANGED <<view_vars, data_status, alert_vars, now, last_call,
                   selected_candles, selected_symbol_candles, errors, paused,
                   show_help, symbols, db_candles, events>>

\* KeyCode::Char('r'): a store error is printed
ManualRefresh(fetch_result, stored) ==
    /\ AwaitingKey
    /\ IF fetch_result # Err /\ update_prices_panics(fetch_result[1]) THEN Panic
       ELSE /\ apply_fetch_result(fetch_result)
            /\ UNCHANGED <<refresh_frame, run_loop>>

\* the periodic refresh: a store error is printed
PeriodicRefresh(fetch_result, stored) ==
    /\ run_loop = "running"
    /\ ~paused
    /\ IF fetch_result # Err /\ update_prices_panics(fetch_result[1]) THEN Panic
       ELSE /\ apply_fetch_result(fetch_result)
            /\ UNCHANGED <<refresh_frame, run_loop>>

\* a candle; of is the symbol it was recorded for, which the candles table
\* has as a column and the Candle struct leaves to its holder
Candle(symbol, timestamp) == [of |-> symbol, timestamp |-> timestamp]

\* Database::store_candles: one row per candle, for the symbol it is given
store_candles(table, symbol, candles) ==
    table \o [i \in 1..Len(candles) |->
                 [symbol |-> symbol, timestamp |-> candles[i].timestamp]]

\* mutant: the rows of every symbol are returned
get_candles_any_symbol(table, symbol) ==
    LET rank(i) == 1 + Cardinality({j \in 1..Len(table) :
                       \/ table[j].timestamp < table[i].timestamp
                       \/ (table[j].timestamp = table[i].timestamp /\ j < i)})
    IN  [k \in 1..Len(table) |->
            LET row == table[CHOOSE i \in 1..Len(table) : rank(i) = k]
            IN  Candle(row.symbol, row.timestamp)]

\* Database::get_candles: the rows of the symbol in chronological order
\* (the LIMIT of 50 rows is above what the table holds here)
get_candles(table, symbol) ==
    LET rows == retain(table, {table[i] : i \in {j \in 1..Len(table) :
                                                    table[j].symbol = symbol}})
        rank(i) == 1 + Cardinality({j \in 1..Len(rows) :
                       \/ rows[j].timestamp < rows[i].timestamp
                       \/ (rows[j].timestamp = rows[i].timestamp /\ j < i)})
    IN  [k \in 1..Len(rows) |->
            LET row == rows[CHOOSE i \in 1..Len(rows) : rank(i) = k]
            IN  Candle(row.symbol, row.timestamp)]

\* fetch_candles: klines is the exchange's answer for the symbol, a list of
\* timestamps, or Err
fetch_candles(symbol, klines) ==
    IF klines = Err THEN Err
    ELSE Ok([i \in 1..Len(klines[1]) |-> Candle(symbol, klines[1][i])])

\* mutant: the exchange is asked first, the database only when it fails
FetchCandles_exchange_first(queried, klines, stored) ==
    LET symbol == should_fetch_candles(price_infos, selected_index,
                      selected_symbol_candles, selected_candles)[1]
        fetched_candles == fetch_candles(symbol, klines)
        got == IF fetched_candles # Err THEN fetched_candles[1]
               ELSE get_candles(db_candles, symbol)
        cache == update_candles_for_selected(price_infos, selected_index,
                     selected_symbol_candles, selected_candles, got)
    IN  /\ run_loop = "running"
        /\ should_fetch_candles(price_infos, selected_index,
                                selected_symbol_candles, selected_candles) # None
        /\ selected_candles' = cache.selected_candles
        /\ selected_symbol_candles' = cache.selected_symbol_candles
        /\ IF fetched_candles # Err /\ stored
           THEN /\ Len(db_candles) + Len(fetched_candles[1]) <= MaxStored
                /\ db_candles' = store_candles(db_candles, symbol, fetched_candles[1])
           ELSE UNCHANGED db_candles
        /\ UNCHANGED <<view_vars, data_status, alert_vars, now, last_call,
                       errors, paused, show_help, symbols, events, run_loop>>

\* the candle section: the candles of the database if the query succeeds
\* (queried) and returns any, else those of the exchange, which are stored
\* unless the store fails (a store error is printed)
FetchCandles(queried, klines, stored) ==
    LET symbol == should_fetch_candles(price_infos, selected_index,
                      selected_symbol_candles, selected_candles)[1]
        cached_candles == IF queried THEN Ok(get_candles(db_candles, symbol)) ELSE Err
        fetched_candles == fetch_candles(symbol, klines)
        from_database == cached_candles # Err /\ cached_candles[1] # << >>
        got == IF from_database THEN cached_candles ELSE fetched_candles
        cache == update_candles_for_selected(price_infos, selected_index,
                     selected_symbol_candles, selected_candles, got[1])
    IN  /\ run_loop = "running"
        /\ should_fetch_candles(price_infos, selected_index,
                                selected_symbol_candles, selected_candles) # None
        /\ IF got # Err
           THEN /\ selected_candles' = cache.selected_candles
                /\ selected_symbol_candles' = cache.selected_symbol_candles
           ELSE UNCHANGED <<selected_candles, selected_symbol_candles>>
        /\ IF ~from_database /\ fetched_candles # Err /\ stored
           THEN /\ Len(db_candles) + Len(fetched_candles[1]) <= MaxStored
                /\ db_candles' = store_candles(db_candles, symbol, fetched_candles[1])
           ELSE UNCHANGED db_candles
        /\ UNCHANGED <<view_vars, data_status, alert_vars, now, last_call,
                       errors, paused, show_help, symbols, events, run_loop>>

(***************************************************************************)
(* run_loop against any outcome of the fetch and of the database           *)
(***************************************************************************)
LoopSnapshots ==
    {<< >>, <<PriceInfo(BT, 1, 0, 1)>>,
     <<PriceInfo(ET, 2, 6, 1), PriceInfo(BT, 1, 0, 1)>>}

\* Result<Vec<PriceInfo>, _>: what the else branches of run_loop handle
FetchResults == {Err} \cup {Ok(infos) : infos \in LoopSnapshots}

\* what the exchange answers to a klines request: an error, no candle, or
\* the timestamps of its candles
Klines == {Err, Ok(<< >>), Ok(<<2>>)}

\* the keys 'f' and 'c' and the mouse click act on the view alone; they are
\* exercised in NextView and left out here
NextRunLoop ==
    \/ \E cached_prices \in LoopSnapshots : LoadCachedPrices(cached_prices)
    \/ \E fetch_result \in FetchResults, stored \in BOOLEAN :
          InitialFetch(fetch_result, stored)
    \/ CloseHelp
    \/ Quit
    \/ AwaitingKey /\ SelectPrevious
    \/ AwaitingKey /\ SelectNext
    \/ AwaitingKey /\ NextSortMode
    \/ AwaitingKey /\ ToggleSortDirection
    \/ AwaitingKey /\ ToggleOfflineMode
    \/ AwaitingKey /\ TogglePause
    \/ AwaitingKey /\ ToggleHelp
    \/ \E fetch_result \in FetchResults, stored \in BOOLEAN :
          ManualRefresh(fetch_result, stored)
    \/ \E fetch_result \in FetchResults, stored \in BOOLEAN :
          PeriodicRefresh(fetch_result, stored)
    \/ \E queried \in BOOLEAN, klines \in Klines, stored \in BOOLEAN :
          FetchCandles(queried, klines, stored)

SpecRunLoop == Init /\ [][NextRunLoop]_vars

\* a snapshot refresh of run_loop handling fetch_result and the store outcome
Refresh(fetch_result, stored) ==
    \/ InitialFetch(fetch_result, stored)
    \/ ManualRefresh(fetch_result, stored)
    \/ PeriodicRefresh(fetch_result, stored)

\* C25: a refresh whose fetch is reported as failed only records the sync
\* failure: all_price_infos, price_infos, selected_index, alerts and
\* recent_alerts (and every other field but data_status) are as before, and
\* run_loop goes on with its loop.
C25_FailedFetchOnlyRecordsFailure ==
    [][\A stored \in BOOLEAN :
          Refresh(Err, stored) =>
             /\ data_status' = record_sync_failure(data_status)
             /\ UNCHANGED <<all_price_infos, price_infos, selected_index,
                            alerts, recent_alerts>>
             /\ UNCHANGED refresh_frame
             /\ run_loop' = "running"]_vars

\* C25 witness: a fetch has failed after a successful one, and the rows of
\* the successful one are still shown
C25_Witness ==
    /\ run_loop = "running"
    /\ data_status.consecutive_failures = 1
    /\ data_status.last_successful_sync # None
    /\ Len(price_infos) = 2
    /\ all_price_infos = <<PriceInfo(ET, 2, 6, 1), PriceInfo(BT, 1, 0, 1)>>

\* C27: at no place where run_loop stores fetched data does a store error
\* end run_loop, and the fetched data is applied all the same.
C27_StoreErrorNotPropagated ==
    /\ [][\A infos \in LoopSnapshots :
             Refresh(Ok(infos), FALSE) =>
                /\ run_loop' = "running"
                /\ all_price_infos' = infos]_vars
    /\ [][(\E queried \in BOOLEAN : FetchCandles(queried, Ok(<<2>>), FALSE)) =>
             /\ run_loop' = "running"
             /\ selected_candles' # << >>
             /\ db_candles' = db_candles]_vars

(***************************************************************************)
(* run_loop with fetch_price_infos as its fetch                            *)
(***************************************************************************)
BTBEAT == <<"B", "T", "B", "E", "A", "T">>
ETBEAT == <<"E", "T", "B", "E", "A", "T">>

\* lists of configured symbols: BT is too short and the lower-case symbol
\* is not upper case, so their price requests are refused
SymbolLists ==
    {<< >>, <<BTBEAT>>, <<BT>>, <<ETBEAT, BTBEAT>>, <<BTBEAT, BTBEAT>>,
     <<BT, ETBEAT>>, <<to_lowercase(BTBEAT), BTBEAT>>}

\* what the exchange answers for one symbol
ResponsePool ==
    {[price |-> price, stats |-> stats] :
        price \in {None, Some(Text(7)), Some(Unparsable)},
        stats \in {None,
                   Some([priceChangePercent |-> Text(6), volume |-> Text(3)])}}
    \cup {[price |-> Some(Text(7)),
           stats |-> Some([priceChangePercent |-> Unparsable, volume |-> Text(2)])]}

ResponsesFor(requested) == [1..Len(requested) -> ResponsePool]

InitFetch == InitApp /\ symbols \in SymbolLists

NextFetch ==
    \/ \E responses \in ResponsesFor(symbols) :
          LoadCachedPrices(fetch_price_infos(symbols, responses)[1])
    \/ \E responses \in ResponsesFor(symbols), stored \in BOOLEAN :
          InitialFetch(fetch_price_infos(symbols, responses), stored)
    \/ \E responses \in ResponsesFor(symbols), stored \in BOOLEAN :
          ManualRefresh(fetch_price_infos(symbols, responses), stored)
    \/ \E responses \in ResponsesFor(symbols), stored \in BOOLEAN :
          PeriodicRefresh(fetch_price_infos(symbols, responses), stored)
    \/ AwaitingKey /\ TogglePause
    \/ AwaitingKey /\ ToggleOfflineMode

SpecFetch == InitFetch /\ [][NextFetch]_vars

\* the request for requested[i] failed: price, statistics
PriceFailed(requested, responses, i) ==
    \/ responses[i].price = None
    \/ Len(requested[i]) < 6
    \/ \E k \in 1..Len(requested[i]) : requested[i][k] \notin {"A", "B", "E", "T"}

StatsFailed(requested, responses, i) == responses[i].stats = None

\* the number a text stands for, 0 when it is none
NumberOf(text) == IF text.parses THEN text.value ELSE 0

\* C26: a refresh in which a request to the exchange fails or the database
\* write fails raises consecutive_failures by one.
C26_EveryFailureIsRecorded ==
    [][\A responses \in ResponsesFor(symbols), stored \in BOOLEAN :
          (/\ Refresh(fetch_price_infos(symbols, responses), stored)
           /\ \/ ~stored
              \/ \E i \in 1..Len(symbols) :
                    \/ PriceFailed(symbols, responses, i)
                    \/ StatsFailed(symbols, responses, i))
            => data_status'.consecutive_failures
                   = data_status.consecutive_failures + 1]_vars

\* C28: fetch_price_infos returns Ok with one record per requested symbol in
\* request order; a failed price request gives a record of zeros, a failed
\* statistics request alone gives the fetched price with zeros; record i is
\* thereby fixed by the answers for symbol i alone, whatever the answers for
\* the other symbols are.  The snapshot of the App is always such a list.
C28_PerSymbolIsolation ==
    /\ \A responses \in ResponsesFor(symbols) :
          LET result == fetch_price_infos(symbols, responses)
          IN  /\ result # Err
              /\ Len(result[1]) = Len(symbols)
              /\ \A i \in 1..Len(symbols) :
                    /\ result[1][i].symbol = symbols[i]
                    /\ result[1][i] =
                         IF PriceFailed(symbols, responses, i)
                         THEN PriceInfo(symbols[i], 0, 0, 0)
                         ELSE IF StatsFailed(symbols, responses, i)
                         THEN PriceInfo(symbols[i],
                                        NumberOf(responses[i].price[1]), 0, 0)
                         ELSE PriceInfo(symbols[i],
                                  NumberOf(responses[i].price[1]),
                                  NumberOf(responses[i].stats[1].priceChangePercent),
                                  NumberOf(responses[i].stats[1].volume))
    /\ \/ all_price_infos = << >>
       \/ \E responses \in ResponsesFor(symbols) :
             all_price_infos = fetch_price_infos(symbols, responses)[1]

\* C28 witness: of two requested symbols the first one's requests failed and
\* the second one's did not; the snapshot holds a record of zeros for the
\* first and the fetched values for the second
C28_Witness ==
    /\ symbols = <<ETBEAT, BTBEAT>>
    /\ run_loop = "running"
    /\ all_price_infos = <<PriceInfo(ETBEAT, 0, 0, 0), PriceInfo(BTBEAT, 7, 6, 3)>>

(***************************************************************************)
(* Snapshots with NaN                                                      *)
(***************************************************************************)
\* rows with equal, zero and negative values, and one NaN row per field
NaNPool ==
    {PriceInfo(BT, 1, 0, 1), PriceInfo(ET, 1, -6, 0),
     PriceInfo(AB, NaN, 0, 1), PriceInfo(AB, 1, NaN, 1), PriceInfo(AB, 1, 0, NaN)}

NaNSnapshots == SeqsUpTo(NaNPool, MaxRows)

NaNFilters == {RangeFilter("PriceRange", None, Some(1))}

\* no operation is called on an App whose thread has panicked
NotPanicked == run_loop # "panicked"

NextNaN ==
    \/ NotPanicked /\ \E infos \in NaNSnapshots : UpdatePrices(infos)
    \/ NotPanicked /\ NextSortMode
    \/ NotPanicked /\ ToggleSortDirection
    \/ NotPanicked /\ NextFilterPreset
    \/ NotPanicked /\ \E f \in NaNFilters : AddFilter(f)
    \/ NotPanicked /\ ClearAllFilters

SpecNaN == Init /\ [][NextNaN]_vars

\* C30: update_prices, the sort operations and the preset and filter
\* operations return normally on every snapshot, also one with equal, zero
\* or negative values or with a NaN price, change percent or volume.
C30_NoOperationAborts == run_loop # "panicked"

(***************************************************************************)
(* The order of the steps of update_prices                                 *)
(***************************************************************************)
\* BT above and at the alert's threshold, alone and next to a gaining ET
OrderSnapshots ==
    {<< >>, <<PriceInfo(BT, 2, 0, 1)>>, <<PriceInfo(BT, 1, 0, 1)>>,
     <<PriceInfo(BT, 2, 0, 1), PriceInfo(ET, 1, 6, 1)>>,
     <<PriceInfo(ET, 1, 6, 1)>>}

OrderPresets == {"All", "TopGainers"}

NextOrder ==
    \/ CreateAlert(BT, PriceAbove(1), None)
    \/ \E infos \in OrderSnapshots : UpdatePrices(infos)
    \/ \E preset \in OrderPresets : SetFilterPreset(preset)
    \/ SelectNext
    \/ Tick(60)

SpecOrder == Init /\ [][NextOrder]_vars

\* a row of the symbol is in the list
HasSymbol(infos, symbol) == \E k \in 1..Len(infos) : infos[k].symbol = symbol

\* C31: update_prices replaces the snapshot, evaluates the alerts on the
\* complete new snapshot (not on the previous one, and not on the rows the
\* preset and filters leave), recomputes price_infos from the new snapshot
\* and clamps the selection to it, all in one step.
C31_UpdatePricesOrder ==
    [][\A infos \in OrderSnapshots :
          UpdatePrices(infos) =>
             /\ all_price_infos' = infos
             /\ Len(alerts') = Len(alerts)
             /\ \A i \in 1..Len(alerts) :
                   IF Eligible(alerts[i], infos) /\ CooldownOver(alerts[i], now)
                   THEN /\ alerts'[i].trigger_count = alerts[i].trigger_count + 1
                        /\ alerts'[i].last_triggered = Some(now)
                   ELSE alerts'[i] = alerts[i]
             /\ price_infos' = apply_filters_and_sorting(infos, active_preset,
                                                         active_filters, sort_config)
             /\ selected_index' =
                   IF price_infos' # << >> /\ selected_index >= Len(price_infos')
                   THEN Len(price_infos') - 1 ELSE selected_index]_vars

\* C31 witness: the alert on BT has triggered on a snapshot whose BT row the
\* TopGainers preset keeps out of price_infos
C31_Witness ==
    /\ active_preset = "TopGainers"
    /\ HasSymbol(all_price_infos, BT)
    /\ ~HasSymbol(price_infos, BT)
    /\ price_infos # << >>
    /\ Len(alerts) = 1
    /\ alerts[1].trigger_count = 1
    /\ alerts[1].last_triggered = Some(now)
    /\ Len(recent_alerts) = 1

(***************************************************************************)
(* The candle cache of run_loop                                            *)
(***************************************************************************)
\* C32: in run_loop the candle cache is never attributed to the wrong
\* symbol: every candle of selected_candles was loaded or fetched for the
\* symbol that selected_symbol_candles names.
C32_CandlesBelongToNamedSymbol ==
    \A i \in 1..Len(selected_candles) :
        selected_candles[i].of = selected_symbol_candles

\* C32 witness: the database holds candles of BT, the selection has moved to
\* ET and the cache holds the candles fetched for ET
C32_Witness ==
    /\ run_loop = "running"
    /\ db_candles = <<[symbol |-> BT, timestamp |-> 2]>>
    /\ get_selected_symbol(price_infos, selected_index) # None
    /\ get_selected_symbol(price_infos, selected_index)[1].symbol = ET
    /\ selected_symbol_candles = ET
    /\ selected_candles = <<Candle(ET, 2)>>

\* render_crypto_details draws the chart from selected_candles whenever it
\* is not empty: the chart is that of the selected row when the cache names
\* the selected row's symbol
ChartOfSelectedRow ==
    (/\ get_selected_symbol(price_infos, selected_index) # None
     /\ selected_candles # << >>) =>
        selected_symbol_candles =
            get_selected_symbol(price_infos, selected_index)[1].symbol

\* the candle section with a failing database query and a failing exchange
\* request leaves every field as it is
FailedCandleLoad == FetchCandles(FALSE, Err, FALSE)

\* C35: whenever the dashboard is drawn with a selected row and a non-empty
\* selected_candles, selected_symbol_candles is the selected row's symbol,
\* also when the candle load for the newly selected symbol has failed.  The
\* dashboard is drawn after the candle section of the iteration before; a
\* failed load is a step that changes nothing, so a state in which one can
\* happen is the state drawn next.
C35_ChartShowsSelectedSymbol ==
    (run_loop = "running" /\ ENABLED FailedCandleLoad) => ChartOfSelectedRow

\* run_loop with the keys that move the selection, the refresh on 'r' and
\* the candle section
NextChart ==
    \/ \E cached_prices \in LoopSnapshots : LoadCachedPrices(cached_prices)
    \/ \E fetch_result \in FetchResults, stored \in BOOLEAN :
          InitialFetch(fetch_result, stored)
    \/ AwaitingKey /\ SelectPrevious
    \/ AwaitingKey /\ SelectNext
    \/ AwaitingKey /\ NextSortMode
    \/ \E queried \in BOOLEAN, klines \in Klines, stored \in BOOLEAN :
          FetchCandles(queried, klines, stored)

SpecChart == Init /\ [][NextChart]_vars

\* the candles table has rows of the symbol
HoldsCandles(table, symbol) == \E i \in 1..Len(table) : table[i].symbol = symbol

\* the candle section has set the cache of the selected row to candles
\* without storing any
ServedFrom(candles) ==
    /\ selected_candles' = candles
    /\ selected_symbol_candles' =
           get_selected_symbol(price_infos, selected_index)[1].symbol
    /\ db_candles' = db_candles

\* C39 as stated: once the database holds candles for a symbol, every later
\* candle load for that symbol is served from the database, whatever the
\* exchange would answer.
C39_AlwaysServedFromDatabase ==
    [][\A queried \in BOOLEAN, klines \in Klines, stored \in BOOLEAN :
          (/\ FetchCandles(queried, klines, stored)
           /\ HoldsCandles(db_candles,
                  get_selected_symbol(price_infos, selected_index)[1].symbol)) =>
              ServedFrom(get_candles(db_candles,
                  get_selected_symbol(price_infos, selected_index)[1].symbol))]_vars

\* C39: the exchange's answer is used only when the database query fails or
\* returns no candles; once the database holds candles for a symbol, every
\* later candle load for that symbol whose database query succeeds is served
\* from the database, whatever the exchange would answer.
C39_ServedFromDatabaseWhenQueried ==
    [][\A queried \in BOOLEAN, klines \in Klines, stored \in BOOLEAN :
          FetchCandles(queried, klines, stored) =>
              LET symbol == get_selected_symbol(price_infos, selected_index)[1].symbol
              IN  IF queried /\ HoldsCandles(db_candles, symbol)
                  THEN ServedFrom(get_candles(db_candles, symbol))
                  ELSE IF klines = Err
                       THEN UNCHANGED <<selected_candles, selected_symbol_candles,
                                        db_candles>>
                       ELSE /\ selected_candles' = fetch_candles(symbol, klines)[1]
                            /\ selected_symbol_candles' = symbol]_vars

\* C39 witness: the candles of BT were stored, the candles of ET were loaded
\* after them, and the selection is back on BT: the next load is one for a
\* symbol whose candles the database holds
C39_Witness ==
    /\ run_loop = "running"
    /\ HoldsCandles(db_candles, BT)
    /\ selected_symbol_candles = ET
    /\ selected_candles # << >>
    /\ should_fetch_candles(price_infos, selected_index,
                            selected_symbol_candles, selected_candles) = Some(BT)

(***************************************************************************)
(* Re-sorting the visible list against recomputing it                      *)
(***************************************************************************)
\* rows with equal prices, equal changes and equal volumes
ResortPool == {PriceInfo(ET, 1, 0, 1), PriceInfo(BT, 1, 6, 1), PriceInfo(AB, 2, 0, 1)}

ResortSnapshots == SeqsUpTo(ResortPool, MaxRows)

NextResort ==
    \/ \E infos \in ResortSnapshots : UpdatePrices(infos)
    \/ NextSortMode
    \/ ToggleSortDirection

SpecResort == Init /\ [][NextResort]_vars

\* C33: next_sort_mode and toggle_sort_direction leave in price_infos
\* exactly the list that a full recompute from all_price_infos under the new
\* sort_config gives, the order of rows with equal sort keys included.
C33_ResortIsRecompute ==
    [][(NextSortMode \/ ToggleSortDirection) =>
          price_infos' = apply_filters_and_sorting(all_price_infos, active_preset,
                                                   active_filters, sort_config')]_vars

(***************************************************************************)
(* The input events of run_loop                                            *)
(***************************************************************************)
\* an input event: <<"Key", code, 0, 0>>, <<"Mouse", kind, column, row>> or
\* <<"Resize", "", 0, 0>>
KeyEvent(code) == <<"Key", code, 0, 0>>
MouseEvent(kind, column, row) == <<"Mouse", kind, column, row>>
ResizeEvent == <<"Resize", "", 0, 0>>

InputEvents ==
    {KeyEvent("Down"), KeyEvent("?"), MouseEvent("LeftDown", 1, 6),
     MouseEvent("Moved", 1, 6), ResizeEvent}

\* the terminal queues an input event
Arrive(event) ==
    /\ run_loop \in {"running", "blocked_in_read"}
    /\ Len(events) < MaxEvents
    /\ events' = Append(events, event)
    /\ UNCHANGED <<view_vars, data_status, alert_vars, now, last_call,
                   selected_candles, selected_symbol_candles, errors, paused,
                   show_help, symbols, db_candles, run_loop>>

\* the arm for Event::Key(key): any key closes the help overlay, else the
\* key is dispatched (Down and '?' here, any other code does nothing)
handle_key(code) ==
    /\ show_help' = (IF show_help THEN FALSE ELSE IF code = "?" THEN TRUE ELSE show_help)
    /\ selected_index' = IF ~show_help /\ code = "Down"
                         THEN select_next(selected_index, Len(price_infos))
                         ELSE selected_index

\* the arm `else if let Event::Mouse(mouse_event) = event::read()?` once its
\* read has returned event
handle_second_read(event) ==
    /\ selected_index' = IF event[1] = "Mouse" /\ ~show_help
                         THEN handle_mouse_click(selected_index, Len(price_infos),
                                                 event[2], event[3], event[4])
                         ELSE selected_index
    /\ UNCHANGED show_help

event_frame == <<all_price_infos, price_infos, sort_config, active_filters,
                 active_preset, search_mode, search_query, data_status,
                 alert_vars, now, last_call, selected_candles,
                 selected_symbol_candles, errors, paused, symbols, db_candles>>

\* the event section of an iteration: event::poll has reported an event;
\* event::read returns it; when it is no key event, event::read is called
\* again and waits for the next event when none is pending
HandleEvents ==
    /\ run_loop = "running"
    /\ events # << >>
    /\ IF Head(events)[1] = "Key"
       THEN /\ handle_key(Head(events)[2])
            /\ events' = Tail(events)
            /\ UNCHANGED run_loop
       ELSE IF Tail(events) = << >>
       THEN /\ events' = << >>
            /\ run_loop' = "blocked_in_read"
            /\ UNCHANGED <<selected_index, show_help>>
       ELSE /\ handle_second_read(events[2])
            /\ events' = Tail(Tail(events))
            /\ UNCHANGED run_loop
    /\ UNCHANGED event_frame

\* the second event::read returns with the event that has arrived
ReadReturns ==
    /\ run_loop = "blocked_in_read"
    /\ events # << >>
    /\ handle_second_read(Head(events))
    /\ events' = Tail(events)
    /\ run_loop' = "running"
    /\ UNCHANGED event_frame

EventSnapshots == {<<PriceInfo(BT, 1, 0, 1), PriceInfo(ET, 2, 6, 1)>>}

NextEvents ==
    \/ \E cached_prices \in EventSnapshots : LoadCachedPrices(cached_prices)
    \/ \E fetch_result \in {Err} : InitialFetch(fetch_result, TRUE)
    \/ \E event \in InputEvents : Arrive(event)
    \/ HandleEvents
    \/ ReadReturns
    \/ \E fetch_result \in {Err} \cup {Ok(infos) : infos \in EventSnapshots} :
          PeriodicRefresh(fetch_result, TRUE)

SpecEvents == Init /\ [][NextEvents]_vars

\* C34: when event::poll reports a pending event, the iteration consumes
\* exactly one event and handles that same event: a left click is passed to
\* handle_mouse_click without a further event, and the loop never waits for
\* input beyond the poll.
C34_OneEventPerIteration ==
    /\ [](run_loop # "blocked_in_read")
    /\ [][HandleEvents =>
            /\ events' = Tail(events)
            /\ (Head(events)[1] = "Mouse" /\ ~show_help) =>
                  selected_index' =
                      handle_mouse_click(selected_index, Len(price_infos),
                          Head(events)[2], Head(events)[3], Head(events)[4])]_vars

(***************************************************************************)
(* toggle_alert and the cooldown                                           *)
(***************************************************************************)
\* C38: toggle_alert changes only the enabled flag of the addressed alert;
\* last_triggered, trigger_count and every other alert are unchanged, so an
\* alert disabled and re-enabled inside its cooldown does not trigger again
\* before 60 minutes have passed since it last triggered.
C38_ToggleChangesOnlyEnabled ==
    /\ [][ToggleAlert(1) =>
            /\ Len(alerts') = Len(alerts)
            /\ \A i \in 1..Len(alerts) :
                  alerts'[i] = IF alerts[i].id = 1
                               THEN [alerts[i] EXCEPT !.enabled = ~@]
                               ELSE alerts[i]
            /\ recent_alerts' = recent_alerts]_vars
    /\ [][\A i \in 1..Len(alerts) :
            (Len(alerts') >= i /\ alerts'[i].trigger_count > alerts[i].trigger_count) =>
                CooldownOver(alerts[i], now)]_vars

\* C38 witness: the first alert has triggered less than an hour ago, was
\* disabled after that and has just been enabled again, a second alert is
\* there, and the condition holds on the current snapshot
C38_Witness ==
    /\ Len(alerts) = 2
    /\ last_call = Call("toggle_alert", <<1>>, <<TRUE>>, << >>)
    /\ alerts[1].enabled
    /\ alerts[1].trigger_count = 1
    /\ alerts[1].last_triggered # None
    /\ now > alerts[1].last_triggered[1]
    /\ ~CooldownOver(alerts[1], now)
    /\ ConditionHolds(alerts[1], all_price_infos)

(***************************************************************************)
(* The failure count and offline mode                                      *)
(***************************************************************************)
\* C37: in every state reachable by record_sync_failure,
\* record_successful_sync and toggle_offline_mode,
\* consecutive_failures >= 3 implies offline_mode.
C37_ThreeFailuresMeanOffline ==
    data_status.consecutive_failures >= OfflineThreshold => data_status.offline_mode

(***************************************************************************)
(* Alerts on the records of fetch_price_infos                              *)
(***************************************************************************)
PriceBelow(x) == [kind |-> "PriceBelow", threshold |-> x]
PercentChangeBelow(x) == [kind |-> "PercentChangeBelow", threshold |-> x]

\* the exchange's answers give price 7 and change 6 when the requests work
OutageConditions == {PriceBelow(5), PercentChangeBelow(-5), PercentChangeBelow(3)}

InitOutage == InitApp /\ symbols \in {<<BTBEAT>>, <<ETBEAT, BTBEAT>>}

\* the snapshot refreshes of run_loop on an App that holds alerts (the
\* terminal has no key that creates one; the web front end creates them
\* with App::create_alert and hands the result of fetch_price_infos to
\* update_prices as run_loop does)
NextOutage ==
    \/ \E condition \in OutageConditions : CreateAlert(BTBEAT, condition, None)
    \/ \E responses \in ResponsesFor(symbols) :
          LoadCachedPrices(fetch_price_infos(symbols, responses)[1])
    \/ \E responses \in ResponsesFor(symbols) :
          InitialFetch(fetch_price_infos(symbols, responses), TRUE)
    \/ \E responses \in ResponsesFor(symbols) :
          PeriodicRefresh(fetch_price_infos(symbols, responses), TRUE)

SpecOutage == InitOutage /\ [][NextOutage]_vars

\* the price request of the alert's symbol failed in this fetch
RequestFailedFor(alert, requested, responses) ==
    \E k \in 1..Len(requested) :
        /\ requested[k] = alert.symbol
        /\ \A j \in 1..(k - 1) : requested[j] # alert.symbol
        /\ PriceFailed(requested, responses, k)

\* C36: a record of zeros that fetch_price_infos makes for a symbol whose
\* request failed never triggers a PriceBelow or PercentChangeBelow alert on
\* that symbol: the alert's trigger_count and last_triggered stay, and
\* nothing is added to recent_alerts for it.
C36_FailedRequestTriggersNoAlert ==
    [][\A responses \in ResponsesFor(symbols) :
          Refresh(fetch_price_infos(symbols, responses), TRUE) =>
              \A i \in 1..Len(alerts) :
                  (/\ alerts[i].condition.kind \in {"PriceBelow", "PercentChangeBelow"}
                   /\ RequestFailedFor(alerts[i], symbols, responses)) =>
                      alerts'[i] = alerts[i]]_vars

(***************************************************************************)
(* Config::load and the snapshots of the terminal program                  *)
(* (src/src/config.rs, src/src/main.rs)                                    *)
(***************************************************************************)
MaxSymbols  == 50
MinInterval == 1
MaxInterval == 300

Config(symbols_, refresh_interval_seconds) ==
    [symbols |-> symbols_, refresh_interval_seconds |-> refresh_interval_seconds]

\* Config::default: fifteen distinct well-formed symbols every 3 seconds,
\* of which the model keeps the first two
default_config == Config(<<BTBEAT, ETBEAT>>, 3)

\* Config::is_valid_symbol: ^[A-Z]{3,10}[A-Z]{3,4}$
is_valid_symbol(symbol) ==
    /\ Len(symbol) >= 6 /\ Len(symbol) <= 14
    /\ \A i \in 1..Len(symbol) : ByteOf[symbol[i]] \in 65..90

\* Config::is_valid_refresh_interval
is_valid_refresh_interval(interval) ==
    interval >= MinInterval /\ interval <= MaxInterval

\* mutant: a symbol may be listed twice
validate_allowing_duplicates(config) ==
    IF config.symbols = << >> THEN Err
    ELSE IF Len(config.symbols) > MaxSymbols THEN Err
    ELSE IF \E i \in 1..Len(config.symbols) : ~is_valid_symbol(config.symbols[i])
    THEN Err
    ELSE IF ~is_valid_refresh_interval(config.refresh_interval_seconds) THEN Err
    ELSE Ok(<< >>)

\* Config::validate: Ok(()) or an error
validate(config) ==
    IF config.symbols = << >> THEN Err
    ELSE IF Len(config.symbols) > MaxSymbols THEN Err
    ELSE IF \E i \in 1..Len(config.symbols) :
               \/ \E j \in 1..(i - 1) : config.symbols[j] = config.symbols[i]
               \/ ~is_valid_symbol(config.symbols[i])
    THEN Err
    ELSE IF ~is_valid_refresh_interval(config.refresh_interval_seconds) THEN Err
    ELSE Ok(<< >>)

\* coinpeek.json: a text that is the JSON of a Config, or is not
ConfigText(config) == [parses |-> TRUE, config |-> config]
NotJson == [parses |-> FALSE, config |-> default_config]

\* Config::load: file is None when coinpeek.json does not exist; io tells
\* whether reading it, or writing the default one, works
load(file, io) ==
    LET config == IF file # None THEN file[1].config ELSE default_config
    IN  IF ~io THEN Err
        ELSE IF file # None /\ ~file[1].parses THEN Err
        ELSE IF validate(config) = Err THEN Err
        ELSE Ok(config)

ConfiguredLists ==
    {<< >>, <<BTBEAT>>, <<ETBEAT, BTBEAT>>, <<BTBEAT, BTBEAT>>, <<BT, ETBEAT>>,
     <<to_lowercase(BTBEAT)>>, [i \in 1..(MaxSymbols + 1) |-> BTBEAT]}

ConfigFiles ==
    {None, Some(NotJson)}
    \cup {Some(ConfigText(Config(list, interval))) :
             list \in ConfiguredLists,
             interval \in {MinInterval - 1, MinInterval, MaxInterval, MaxInterval + 1}}

\* the rows of the prices table, oldest first
PriceRows == {PriceInfo(BTBEAT, 1, 0, 1), PriceInfo(BTBEAT, 2, 6, 1),
              PriceInfo(ETBEAT, 3, 0, 1)}

PriceTables == SeqsUpTo(PriceRows, 3)

\* Database::get_latest_price: the newest row of the symbol, if any
get_latest_price(table, symbol) ==
    LET hits == {i \in 1..Len(table) : table[i].symbol = symbol}
    IN  IF hits = {} THEN None
        ELSE Some(table[CHOOSE i \in hits : \A j \in hits : j <= i])

\* the cached load of run_loop: for every configured symbol whose query
\* works (its index is not in failed) and finds a row, that row
cached_prices(table, failed, requested) ==
    LET keep == {i \in 1..Len(requested) :
                    i \notin failed /\ get_latest_price(table, requested[i]) # None}
        at(k) == CHOOSE i \in keep : Cardinality({j \in keep : j < i}) = k - 1
    IN  [k \in 1..Cardinality(keep) |-> get_latest_price(table, requested[at(k)])[1]]

\* main: run_loop is entered with the configuration Config::load returned
InitConfig ==
    \E file \in ConfigFiles, io \in BOOLEAN :
        /\ load(file, io) # Err
        /\ InitApp
        /\ symbols = load(file, io)[1].symbols

NextConfig ==
    \/ \E table \in PriceTables, failed \in SUBSET (1..Len(symbols)) :
          LoadCachedPrices(cached_prices(table, failed, symbols))
    \/ \E responses \in ResponsesFor(symbols), stored \in BOOLEAN :
          InitialFetch(fetch_price_infos(symbols, responses), stored)
    \/ \E responses \in ResponsesFor(symbols), stored \in BOOLEAN :
          ManualRefresh(fetch_price_infos(symbols, responses), stored)
    \/ \E responses \in ResponsesFor(symbols), stored \in BOOLEAN :
          PeriodicRefresh(fetch_price_infos(symbols, responses), stored)
    \/ AwaitingKey /\ SelectNext
    \/ AwaitingKey /\ TogglePause

SpecConfig == InitConfig /\ [][NextConfig]_vars

\* no symbol occurs twice
Distinct(list) == \A i, j \in 1..Len(list) : list[i] = list[j] => i = j

\* 1 to 50 symbols, none twice, refresh interval 1 to 300
WellFormed(config) ==
    /\ Len(config.symbols) >= 1 /\ Len(config.symbols) <= 50
    /\ Distinct(config.symbols)
    /\ config.refresh_interval_seconds >= 1
    /\ config.refresh_interval_seconds <= 300

\* C40: in the terminal program every snapshot passed to update_prices has
\* pairwise distinct symbols: Config::load returns only configurations that
\* pass validate (1 to 50 symbols, no duplicates, refresh interval 1 to
\* 300), and the cached load and fetch_price_infos give at most one record
\* per configured symbol.
C40_SnapshotsHaveDistinctSymbols ==
    /\ \A file \in ConfigFiles, io \in BOOLEAN :
          load(file, io) # Err => WellFormed(load(file, io)[1])
    /\ Len(symbols) >= 1 /\ Len(symbols) <= 50 /\ Distinct(symbols)
    /\ Distinct([i \in 1..Len(all_price_infos) |-> all_price_infos[i].symbol])
    /\ \A i \in 1..Len(all_price_infos) :
          \E k \in 1..Len(symbols) : symbols[k] = all_price_infos[i].symbol

\* C40 witness: two symbols are configured, the cached load has handed the
\* newest row of each to update_prices, and the startup fetch is to come
C40_Witness ==
    /\ run_loop = "initial_fetch"
    /\ symbols = <<ETBEAT, BTBEAT>>
    /\ all_price_infos = <<PriceInfo(ETBEAT, 3, 0, 1), PriceInfo(BTBEAT, 2, 6, 1)>>

============================================================================
